---- MODULE Spec2Model ----
(***************************************************************************)
(* rx: the iteration kernel (src/src/kernel.rs), its bootstrap             *)
(* (src/src/main.rs) and the durable event store                           *)
(* (src/src/sqlite_state.rs), as one state machine.                        *)
(*                                                                         *)
(* One rx process runs at a time.  A process is started by the bootstrap   *)
(* (a new goal, or --resume of a stored goal), runs Kernel::run and        *)
(* exits; it may also be killed at any await point.  The events table      *)
(* outlives the processes.                                                 *)
(*                                                                         *)
(* JSON values are records; a string built by format!/to_string is the     *)
(* tuple of its pieces.  id and timestamp of an Event carry no control     *)
(* flow in the kernel and are not part of the rows modelled here.          *)
(***************************************************************************)
EXTENDS Integers, Sequences, FiniteSets, TLC

\* ------------------------------------------------------------- bounds
\* Number of rx processes started (bootstraps).
MaxRuns == 2
\* --max-iterations ranges over 0..MaxIter.
MaxIter == 2
\* Total number of model.next_action calls answered, over all processes.
MaxCalls == 2

\* ------------------------------------------------------------- inputs
\* Goal ids in the order of their timestamp prefix (main.rs:341, 352).
GoalSeq == <<"20261102-000001-goal", "20261102-000002-goal">>

GoalIds == {GoalSeq[i] : i \in 1..Len(GoalSeq)}

\* The tools main registers (main.rs:364-375).
RegisteredTools ==
  {"bash", "exec", "exec_capture", "exec_status", "exec_with_input",
   "which_command", "read_file", "write_file", "list_dir", "stat_file", "done"}

\* The tool calls the model may answer with: a registered tool, a name the
\* registry does not hold, and done.
ToolCalls ==
  { [id |-> "call_1", name |-> "write_file", arguments |-> [path |-> "hello.txt"]],
    [id |-> "call_2", name |-> "apply_patch", arguments |-> [path |-> "hello.txt"]],
    [id |-> "call_3", name |-> "done", arguments |-> [reason |-> "ok"]] }

\* enum Action { Message(String), ToolCall(ToolCall) } as serde_json::json!(action).
MessageAction(text) == [Message |-> text]

ToolCallAction(tc) == [ToolCall |-> tc]

Actions == {MessageAction("thinking")} \cup {ToolCallAction(tc) : tc \in ToolCalls}

IsToolCall(a) == "ToolCall" \in DOMAIN a

NoAction == MessageAction("")

NoOutput == [none |-> TRUE]

\* What Tool::execute of a registered tool may return.  done echoes its
\* arguments and always succeeds (tools/done.rs:51-62); every other tool
\* returns a success value or an error.
ToolResults(tc) ==
  IF tc.name = "done"
    THEN { [ok |-> TRUE,
            value |-> [status |-> "done", reason |-> tc.arguments.reason,
                       details |-> [null |-> TRUE]]] }
    ELSE { [ok |-> TRUE, value |-> [success |-> TRUE]],
           [ok |-> FALSE, value |-> <<"io error">>] }

\* ------------------------------------------------------------- state
VARIABLES
  events,          \* the events table: rows in rowid order
  pc,              \* where the rx process is; "idle" when none is running
  exit_code,       \* exit status of the most recently finished process
  run_error,       \* the error that ended it ("none" when it ended normally)
  goal_id,         \* Kernel.goal_id
  max_iterations,  \* Kernel.max_iterations
  auto_commit,     \* Kernel.auto_commit
  iteration,       \* Kernel::run's local counter
  history,         \* Kernel::run's local: what load returned
  action,          \* Kernel::run's local: what next_action returned
  output,          \* Kernel::run's local: what execute_tool returned
  tool_execs,      \* the tool calls executed so far, in order
  commits,         \* the tool names after whose tool_output perform_commit ran
  runs,            \* processes started so far
  calls,           \* next_action calls answered so far
  resumed,         \* history: the running process was started with --resume
  run_base,        \* history: number of events of goal_id when run began
  interrupted      \* history: rowids of action rows whose process ended
                   \* before their tool_output was appended

kvars ==
  <<events, pc, exit_code, run_error, goal_id, max_iterations, auto_commit,
    iteration, history, action, output, tool_execs, commits, runs, calls,
    resumed, run_base, interrupted>>

\* The durable store on its own (sqlite_state.rs, state.rs).
VARIABLES
  draft,           \* which SqliteStateStore: "sqlite_state" or "state"
  table,           \* rows of its events table, in rowid order
  appended,        \* history: the events whose append_event returned Ok
  loaded,          \* result of the last load
  loaded_goal,     \* goal_id of that load, "" when an append came after it
  store_result     \* "ok" or "error" of the last call, "none" before any

svars == <<draft, table, appended, loaded, loaded_goal, store_result>>

\* A HookedStateStore on its own (runtime_hooks.rs).
VARIABLES
  inner,           \* events of the store it wraps
  hook_calls,      \* history: the on_event calls made, in order
  warnings,        \* "Warning: event hook failed" lines on stderr
  hooked_result    \* "ok" or "error" of the last append_event, "none" before any

hvars == <<inner, hook_calls, warnings, hooked_result>>

\* The filesystem tools on their own (tools/fs.rs).
VARIABLES
  files,           \* path -> [content, mtime] of a regular file, or NoFile
  dirs,            \* the directories below the working directory that exist
  fs_clock,        \* the wall clock of the filesystem, in Unix ms
  fs_calls,        \* tool calls executed so far
  last_input,      \* history: input of the last tool call
  tool_result      \* what the last Tool::execute returned

fvars == <<files, dirs, fs_clock, fs_calls, last_input, tool_result>>

\* One write_atomically and a concurrent reader of its path (tools/fs.rs).
VARIABLES
  entries,         \* directory entries: name -> inode, 0 when there is none
  inodes,          \* inode -> bytes of the file
  pre_image,       \* history: the file at the path when the write began
  w_data,          \* the data argument of write_atomically
  w_pc,            \* position of write_atomically
  reader_inode,    \* inode the reader has open, 0 when none
  reads,           \* history: what the reader's reads of the path returned
  read_count       \* reads started so far

wvars == <<entries, inodes, pre_image, w_data, w_pc, reader_inode, reads, read_count>>

\* The patch text handed to apply_patch (tools/fs.rs).
VARIABLES
  patch            \* its lines, as far as they have been written

\* One execute_command and its child process (tools/exec_common.rs).
VARIABLES
  request,         \* the ExecCommandRequest
  child,           \* "none", "running", "exited", "killed" or "reaped"
  status,          \* the ExitStatus the child left, None while it runs
  child_out,       \* stream -> every byte the child wrote to it
  consumed,        \* stream -> how many of them reader.read has returned
  buffer,          \* stream -> read_stream_limited's buffer
  truncated,       \* stream -> read_stream_limited's truncated
  reader_done,     \* stream -> its capture task has returned
  now,             \* seconds since the timeout began
  exit_time,       \* history: value of now when the child exited by itself
  kill_sent,       \* history: child.kill() was called
  exit_status,     \* execute_command's local exit_status
  timed_out,       \* execute_command's local timed_out
  e_pc,            \* position of execute_command
  exec_result      \* what execute_command returned

evars ==
  <<request, child, status, child_out, consumed, buffer, truncated, reader_done,
    now, exit_time, kill_sent, exit_status, timed_out, e_pc, exec_result>>

\* One call of a bash tool (tools/bash.rs, rx-core/src/main.rs).
VARIABLES
  script,          \* the script (command) argument, as its characters
  spawned,         \* history: <<tool, program, arguments>> of each process spawned
  bash_result      \* what the call returned

bvars == <<script, spawned, bash_result>>

\* One resolve_enabled_tools (config.rs).
VARIABLES
  tools_config,    \* its argument: Option<&ToolsConfig>
  selection        \* the ToolSelection it returned

cvars == <<tools_config, selection>>

\* One sanitize_goal_slug (utils.rs).
VARIABLES
  slug_input,      \* its argument, as its characters
  slug_output      \* the String it returned, None before the call

gvars == <<slug_input, slug_output>>

\* One apply_patch_hunks (tools/fs.rs).
VARIABLES
  hunk_original,   \* its argument original: the text of the file
  hunk_list,       \* its argument hunks
  hunk_result      \* what it returned, None before the call

uvars == <<hunk_original, hunk_list, hunk_result>>

\* Two write_file calls on one path at the same time (tools/fs.rs).
VARIABLES
  race_files,      \* path -> [content, mtime] of a regular file, or NoFile
  race_clock,      \* the wall clock of the filesystem, in Unix ms
  race_input,      \* call -> its input
  race_pc,         \* call -> "start", "checked" or "done"
  race_replaced,   \* history: call -> the file its write replaced, None before
  race_result      \* call -> what execute returned

rvars == <<race_files, race_clock, race_input, race_pc, race_replaced, race_result>>

\* One BashTool::execute and its child process (tools/bash.rs).
VARIABLES
  sh_timeout,      \* its argument timeout_seconds
  sh_child,        \* "none", "running", "exited" or "reaped"
  sh_now,          \* seconds since the timeout began
  sh_exit,         \* history: Some of the code and the time the child exited with
  sh_pc,           \* position of BashTool::execute
  sh_result        \* what BashTool::execute returned

tvars == <<sh_timeout, sh_child, sh_now, sh_exit,      sh_pc, sh_result>>

\* A client paging through find_files or glob_search (tools/find_files.rs, tools/glob_search.rs).
VARIABLES
  pg_tree,         \* the files below the root, each as the names on its path
  pg_query,        \* the tool called and its arguments other than the cursor
  pg_cursor,       \* the cursor argument of the next call
  pg_pages,        \* history: the outputs of the calls made, in order
  pg_done          \* the last output was not truncated

pvars == <<pg_tree, pg_query, pg_cursor, pg_pages, pg_done>>

\* An InMemoryStateStore shared by concurrent tasks (state.rs).
VARIABLES
  mem_events,      \* the Vec<Event> behind the lock
  mem_lock,        \* the task that holds the lock, 0 when it is free
  mem_pc,          \* task -> position in append_event or load
  mem_arg,         \* task -> the event argument of its append_event
  mem_calls,       \* calls made so far
  mem_returned,    \* history: the events whose append_event returned Ok
  mem_loads,       \* history: what the loads returned, in the order they returned
  log_files        \* the files below logs/: goal_id -> lines

mvars == <<mem_events, mem_lock, mem_pc, mem_arg, mem_calls, mem_returned, mem_loads, log_files>>

\* The bootstrap creating the id of a new goal (main.rs).
VARIABLES
  new_goal,        \* the goal text, goal_parts joined by spaces
  utc_now,             \* what Utc::now() reads when the id is made
  slug_result,     \* what goal_slug_generator.goal_slug returned
  new_goal_id      \* the id made for the goal

ivars == <<new_goal, utc_now, slug_result, new_goal_id>>

\* The message of an auto-commit (model.rs, kernel.rs, runtime_hooks.rs).
VARIABLES
  gen_response,    \* what the request of the generator ended with: an error or the output text
  gen_result,      \* what commit_message returned
  commit_caller,   \* who commits: the kernel or the hook
  commit_used      \* the message given to git commit -m

yvars == <<gen_response, gen_result, commit_caller, commit_used>>

\* The components modelled last.
Last == <<rvars, tvars, pvars, mvars, ivars, yvars>>

\* The components modelled after the patch tool.
Later == <<evars, bvars, cvars, gvars, uvars, Last>>

\* What no step of the kernel changes.
Static == <<auto_commit, svars, hvars, fvars, wvars, patch, Later>>

\* What no step of the durable store changes.
NotStore == <<kvars, hvars, fvars, wvars, patch, Later>>

\* What no step of the HookedStateStore changes.
NotHooks == <<kvars, svars, fvars, wvars, patch, Later>>

\* What no filesystem tool changes.
NotFs == <<kvars, svars, hvars, wvars, Later>>

\* What neither write_atomically nor the reader changes.
NotWrite == <<kvars, svars, hvars, fvars, patch, Later>>

\* What no step of execute_command or its child changes.
NotExec == <<kvars, svars, hvars, fvars, wvars, patch, bvars, cvars, gvars, uvars, Last>>

\* What no bash tool changes.
NotBash == <<kvars, svars, hvars, fvars, wvars, patch, evars, cvars, gvars, uvars, Last>>

\* What resolve_enabled_tools does not change.
NotConfig == <<kvars, svars, hvars, fvars, wvars, patch, evars, bvars, gvars, uvars, Last>>

\* What sanitize_goal_slug does not change.
NotSlug == <<kvars, svars, hvars, fvars, wvars, patch, evars, bvars, cvars, uvars, Last>>

\* What apply_patch_hunks does not change.
NotHunks == <<kvars, svars, hvars, fvars, wvars, patch, evars, bvars, cvars, gvars, Last>>

\* What no step of the racing write_file calls changes.
NotRace == <<kvars, svars, hvars, fvars, wvars, patch, evars, bvars, cvars, gvars, uvars, tvars, pvars, mvars, ivars, yvars>>

\* What no step of BashTool::execute or its child changes.
NotShell == <<kvars, svars, hvars, fvars, wvars, patch, evars, bvars, cvars, gvars, uvars, rvars, pvars, mvars, ivars, yvars>>

\* What no call of find_files or glob_search changes.
NotPage == <<kvars, svars, hvars, fvars, wvars, patch, evars, bvars, cvars, gvars, uvars, rvars, tvars, mvars, ivars, yvars>>

\* What no call on the InMemoryStateStore changes.
NotMem == <<kvars, svars, hvars, fvars, wvars, patch, evars, bvars, cvars, gvars, uvars, rvars, tvars, pvars, ivars, yvars>>

\* What making a goal id leaves alone.
NotBoot == <<kvars, svars, hvars, fvars, wvars, patch, evars, bvars, cvars, gvars, uvars, rvars, tvars, pvars, mvars, yvars>>

\* What making a commit message leaves alone.
NotCommit == <<kvars, svars, hvars, fvars, wvars, patch, evars, bvars, cvars, gvars, uvars, rvars, tvars, pvars, mvars, ivars>>

vars == <<kvars, svars, hvars, fvars, wvars, patch, Later>>

\* The kernel at rest, in the specifications of the other components.
KernelIdle ==
  /\ events = <<>>
  /\ pc = "idle"
  /\ exit_code = 0
  /\ run_error = "none"
  /\ goal_id = ""
  /\ max_iterations = 0
  /\ auto_commit = FALSE
  /\ iteration = 0
  /\ history = <<>>
  /\ action = [Message |-> ""]
  /\ output = [none |-> TRUE]
  /\ tool_execs = <<>>
  /\ commits = <<>>
  /\ runs = 0
  /\ calls = 0
  /\ resumed = FALSE
  /\ run_base = 0
  /\ interrupted = {}

\* An empty events table (CREATE TABLE IF NOT EXISTS, sqlite_state.rs:60-75).
StoreIdle ==
  /\ draft = "sqlite_state"
  /\ table = <<>>
  /\ appended = <<>>
  /\ loaded = <<>>
  /\ loaded_goal = ""
  /\ store_result = "none"

\* A HookedStateStore over an empty store (runtime_hooks.rs:24-28).
HooksIdle ==
  /\ inner = <<>>
  /\ hook_calls = <<>>
  /\ warnings = 0
  /\ hooked_result = "none"

\* Paths the tool calls name, relative to the working directory.
FsPaths == {"x.txt", "d/x.txt"}

\* No file at a path: metadata(path) is Err(NotFound).
NoFile == [exists |-> FALSE]

\* An empty working directory, and no tool called yet.
FsIdle ==
  /\ files = [p \in FsPaths |-> NoFile]
  /\ dirs = {}
  /\ fs_clock = 1
  /\ fs_calls = 0
  /\ last_input = [tool |-> "none"]
  /\ tool_result = [none |-> TRUE]

\* No write_atomically under way.
WriteIdle ==
  /\ entries = <<>>
  /\ inodes = <<>>
  /\ pre_image = <<"none">>
  /\ w_data = <<>>
  /\ w_pc = "done"
  /\ reader_inode = 0
  /\ reads = {}
  /\ read_count = 0

\* No patch text yet.
PatchIdle == patch = <<>>

\* The two output streams of a child process.
Streams == {"stdout", "stderr"}

\* No execute_command under way.
ExecIdle ==
  /\ request = [timeout_seconds |-> <<"none">>,
                capture |-> [s \in Streams |-> FALSE],
                max_bytes |-> [s \in Streams |-> 0]]
  /\ child = "none"
  /\ status = <<"none">>
  /\ child_out = [s \in Streams |-> <<>>]
  /\ consumed = [s \in Streams |-> 0]
  /\ buffer = [s \in Streams |-> <<>>]
  /\ truncated = [s \in Streams |-> FALSE]
  /\ reader_done = [s \in Streams |-> FALSE]
  /\ now = 0
  /\ exit_time = <<"none">>
  /\ kill_sent = FALSE
  /\ exit_status = <<"none">>
  /\ timed_out = FALSE
  /\ e_pc = "idle"
  /\ exec_result = [none |-> TRUE]

\* No bash tool called.
BashIdle ==
  /\ script = <<>>
  /\ spawned = <<>>
  /\ bash_result = [none |-> TRUE]

\* No configuration resolved.
ConfigIdle ==
  /\ tools_config = <<"none">>
  /\ selection = [none |-> TRUE]

\* No slug made.
SlugIdle ==
  /\ slug_input = <<>>
  /\ slug_output = <<"none">>

\* No apply_patch_hunks called on its own.
HunksIdle ==
  /\ hunk_original = <<>>
  /\ hunk_list = <<>>
  /\ hunk_result = <<"none">>

\* No racing write_file calls.
RaceIdle ==
  /\ race_files = <<>>
  /\ race_clock = 0
  /\ race_input = <<>>
  /\ race_pc = <<>>
  /\ race_replaced = <<>>
  /\ race_result = <<>>

\* No BashTool::execute under way.
ShellIdle ==
  /\ sh_timeout = <<"none">>
  /\ sh_child = "none"
  /\ sh_now = 0
  /\ sh_exit = <<"none">>
  /\ sh_pc = "idle"
  /\ sh_result = [none |-> TRUE]

\* No paging under way.
PageIdle ==
  /\ pg_tree = {}
  /\ pg_query = [none |-> TRUE]
  /\ pg_cursor = <<"none">>
  /\ pg_pages = <<>>
  /\ pg_done = TRUE

\* No in-memory store.
MemIdle ==
  /\ mem_events = <<>>
  /\ mem_lock = 0
  /\ mem_pc = <<>>
  /\ mem_arg = <<>>
  /\ mem_calls = 0
  /\ mem_returned = {}
  /\ mem_loads = <<>>
  /\ log_files = <<>>

\* No goal id being made.
BootIdle ==
  /\ new_goal = <<>>
  /\ utc_now = <<>>
  /\ slug_result = <<"none">>
  /\ new_goal_id = <<"none">>

\* No commit message being made.
CommitIdle ==
  /\ gen_response = <<"none">>
  /\ gen_result = <<"none">>
  /\ commit_caller = "none"
  /\ commit_used = <<"none">>

\* The last components at rest.
LastIdle == RaceIdle /\ ShellIdle /\ PageIdle /\ MemIdle /\ BootIdle /\ CommitIdle

\* The later components at rest.
LaterIdle == ExecIdle /\ BashIdle /\ ConfigIdle /\ SlugIdle /\ HunksIdle /\ LastIdle

\* ------------------------------------------------------------- store
\* Event::new(type, payload) (event.rs:13-23).
NewEvent(type, payload) == [type |-> type, payload |-> payload]

\* INSERT INTO events (goal_id, type, payload, timestamp) (sqlite_state.rs:109-124).
Inserted(rows, g, e) ==
  Append(rows, [goal_id |-> g, type |-> e.type, payload |-> e.payload])

\* SELECT type, payload, timestamp FROM events WHERE goal_id = ?1 ORDER BY id
\* (sqlite_state.rs:80-107).
Load(g) ==
  LET rows == SelectSeq(events, LAMBDA r : r.goal_id = g)
  IN  [i \in 1..Len(rows) |-> NewEvent(rows[i].type, rows[i].payload)]

\* ------------------------------------------------------------- kernel
InitialIteration == 0

GoalPayload(g) == [goal |-> <<"goal of ", g>>]

ToolOutputPayloadWithoutId(tc, out) == [tool_call_id |-> "", output |-> out]

\* Kernel::append_tool_output's payload (kernel.rs:127-130).
ToolOutputPayload(tc, out) == [tool_call_id |-> tc.id, output |-> out]

\* Kernel::append_termination's payload (kernel.rs:142-145).
TerminationPayload(reason, details) == [reason |-> reason, details |-> details]

\* The details Kernel::run passes for the iteration cap (kernel.rs:53).
CapDetails == [reason |-> "max_iterations"]

\* The details Kernel::run passes after a done call (kernel.rs:97).
DoneDetails(out) == [reason |-> "done", details |-> out]

ExecuteToolOutputUnnamed(tc, r) ==
  IF tc.name \in RegisteredTools
    THEN IF r.ok THEN r.value ELSE [error |-> r.value]
    ELSE [error |-> <<"Tool not found">>]

\* Kernel::execute_tool (kernel.rs:151-160); r is what Tool::execute returns.
ExecuteToolOutput(tc, r) ==
  IF tc.name \in RegisteredTools
    THEN IF r.ok THEN r.value ELSE [error |-> r.value]
    ELSE [error |-> <<"Tool ", tc.name, " not found">>]

Config == <<goal_id, max_iterations>>

Working == <<iteration, history, action, output>>

Ghosts == <<resumed, run_base, interrupted>>

\* The process ends (std::process::exit, or main returns): its locals are gone.
Exit(code, err) ==
  /\ pc' = "idle"
  /\ exit_code' = code
  /\ run_error' = err
  /\ iteration' = 0
  /\ history' = <<>>
  /\ action' = NoAction
  /\ output' = NoOutput

Init ==
  /\ events = <<>>
  /\ pc = "idle"
  /\ exit_code = 0
  /\ run_error = "none"
  /\ goal_id = ""
  /\ max_iterations = 0
  /\ auto_commit \in BOOLEAN
  /\ iteration = 0
  /\ history = <<>>
  /\ action = NoAction
  /\ output = NoOutput
  /\ tool_execs = <<>>
  /\ commits = <<>>
  /\ runs = 0
  /\ calls = 0
  /\ resumed = FALSE
  /\ run_base = 0
  /\ interrupted = {}
  /\ StoreIdle
  /\ HooksIdle
  /\ FsIdle
  /\ WriteIdle
  /\ PatchIdle
  /\ LaterIdle

\* ------------------------------------------------------------- bootstrap
\* A process starts with the command line's goal and --max-iterations
\* (main.rs:447-457); auto_commit is the configuration file's, the same for
\* every process.
StartProcess(g, n, isResume) ==
  /\ goal_id' = g
  /\ max_iterations' = n
  /\ UNCHANGED Static
  /\ resumed' = isResume
  /\ runs' = runs + 1

EnterRunRestoringIteration(base) ==
  /\ pc' = "loop"
  /\ exit_code' = 0
  /\ run_error' = "none"
  /\ iteration' = (base - 1) \div 2
  /\ run_base' = base
  /\ UNCHANGED <<history, action, output>>

\* The entry of Kernel::run (main.rs:459, kernel.rs:47-48).
EnterRun(base) ==
  /\ pc' = "loop"
  /\ exit_code' = 0
  /\ run_error' = "none"
  /\ iteration' = InitialIteration
  /\ run_base' = base
  /\ UNCHANGED <<history, action, output>>

\* rx --resume g (main.rs:331-338): load; no events => exit(1).
BootstrapResume(g, n) ==
  /\ pc = "idle"
  /\ runs < MaxRuns
  /\ StartProcess(g, n, TRUE)
  /\ UNCHANGED <<events, tool_execs, commits, calls, interrupted>>
  /\ \/ /\ Load(g) # <<>>
        /\ EnterRun(Len(Load(g)))
     \/ /\ Load(g) = <<>>
        /\ Exit(1, "no_events")
        /\ run_base' = 0
     \/ \* state_store.load(&goal_id).await? fails
        /\ Exit(1, "load")
        /\ run_base' = 0

\* rx <goal> (main.rs:339-361): a new goal id, later than the ids of the
\* goals made before it, and the goal event appended.
BootstrapNew(g, n) ==
  /\ pc = "idle"
  /\ runs < MaxRuns
  /\ \E i \in 1..Len(GoalSeq) :
       /\ g = GoalSeq[i]
       /\ \A j \in 1..Len(GoalSeq) : Load(GoalSeq[j]) # <<>> <=> j < i
  /\ StartProcess(g, n, FALSE)
  /\ UNCHANGED <<tool_execs, commits, calls, interrupted>>
  /\ \/ /\ events' = Inserted(events, g, NewEvent("goal", GoalPayload(g)))
        /\ EnterRun(1)
     \/ \* append_event(...).await? fails
        /\ UNCHANGED events
        /\ Exit(1, "append")
        /\ run_base' = 0

\* ------------------------------------------------------------- Kernel::run
CapReachedOffByOne == iteration > max_iterations

\* kernel.rs:51: if iteration >= self.max_iterations
CapReached == iteration >= max_iterations

\* kernel.rs:51-56: the iteration cap.
LoopCap ==
  /\ pc = "loop"
  /\ CapReached
  /\ UNCHANGED <<Config, Static, Ghosts, tool_execs, commits, runs, calls>>
  /\ \/ /\ events' = Inserted(events, goal_id,
                       NewEvent("termination", TerminationPayload("max_iterations", CapDetails)))
        /\ Exit(0, "none")
     \/ /\ UNCHANGED events
        /\ Exit(1, "append")

\* kernel.rs:57-60: iteration += 1; history = load(goal_id)?
LoadHistory ==
  /\ pc = "loop"
  /\ ~CapReached
  /\ UNCHANGED <<events, Config, Static, Ghosts, tool_execs, commits, runs, calls>>
  /\ \/ /\ iteration' = iteration + 1
        /\ history' = Load(goal_id)
        /\ pc' = "loaded"
        /\ UNCHANGED <<exit_code, run_error, action, output>>
     \/ Exit(1, "load")

\* kernel.rs:61: action = model.next_action(&history)?
NextAction(a) ==
  /\ pc = "loaded"
  /\ calls < MaxCalls
  /\ calls' = calls + 1
  /\ action' = a
  /\ pc' = "decided"
  /\ UNCHANGED <<events, exit_code, run_error, Config, Static, iteration, history, output,
                 Ghosts, tool_execs, commits, runs>>

NextActionFailsJournaled ==
  /\ pc = "loaded"
  /\ events' = Inserted(events, goal_id,
                 NewEvent("termination", TerminationPayload("error", [error |-> <<"model">>])))
  /\ Exit(1, "model")
  /\ UNCHANGED <<Config, Static, Ghosts, tool_execs, commits, runs, calls>>

\* kernel.rs:61: next_action fails and ? returns the error from run.
NextActionFails ==
  /\ pc = "loaded"
  /\ Exit(1, "model")
  /\ UNCHANGED <<events, Config, Static, Ghosts, tool_execs, commits, runs, calls>>

AppendActionIgnoringError ==
  /\ pc = "decided"
  /\ UNCHANGED <<Config, Static, Ghosts, tool_execs, commits, runs, calls>>
  /\ pc' = IF IsToolCall(action) THEN "acted" ELSE "loop"
  /\ UNCHANGED <<exit_code, run_error, Working>>
  /\ \/ events' = Inserted(events, goal_id, NewEvent("action", action))
     \/ UNCHANGED events

\* kernel.rs:70-81: append_action(action)?; a Message ends the iteration.
AppendAction ==
  /\ pc = "decided"
  /\ UNCHANGED <<Config, Static, Ghosts, tool_execs, commits, runs, calls>>
  /\ \/ /\ events' = Inserted(events, goal_id, NewEvent("action", action))
        /\ pc' = IF IsToolCall(action) THEN "acted" ELSE "loop"
        /\ UNCHANGED <<exit_code, run_error, Working>>
     \/ /\ UNCHANGED events
        /\ Exit(1, "append")

\* kernel.rs:83: output = execute_tool(&tool_call)
ExecuteTool ==
  /\ pc = "acted"
  /\ \E r \in ToolResults(action.ToolCall) :
       output' = ExecuteToolOutput(action.ToolCall, r)
  /\ tool_execs' = IF action.ToolCall.name \in RegisteredTools
                     THEN Append(tool_execs, action.ToolCall)
                     ELSE tool_execs
  /\ pc' = "executed"
  /\ UNCHANGED <<events, exit_code, run_error, Config, Static, iteration, history, action,
                 Ghosts, commits, runs, calls>>

AppendToolOutputWithoutDoneTest ==
  /\ pc = "executed"
  /\ UNCHANGED <<Config, Static, resumed, run_base, tool_execs, runs, calls>>
  /\ \/ /\ events' = Inserted(events, goal_id,
                       NewEvent("tool_output", ToolOutputPayload(action.ToolCall, output)))
        /\ commits' = IF auto_commit THEN Append(commits, action.ToolCall.name) ELSE commits
        /\ pc' = "loop"
        /\ UNCHANGED <<exit_code, run_error, Working, interrupted>>
     \/ /\ UNCHANGED <<events, commits>>
        /\ interrupted' = interrupted \cup {Len(events)}
        /\ Exit(1, "append")

\* kernel.rs:87-93: append_tool_output(&tool_call, &output)?; perform_commit
\* when auto_commit; then the done test.
AppendToolOutput ==
  /\ pc = "executed"
  /\ UNCHANGED <<Config, Static, resumed, run_base, tool_execs, runs, calls>>
  /\ \/ /\ events' = Inserted(events, goal_id,
                       NewEvent("tool_output", ToolOutputPayload(action.ToolCall, output)))
        /\ commits' = IF auto_commit THEN Append(commits, action.ToolCall.name) ELSE commits
        /\ pc' = IF action.ToolCall.name = "done" THEN "finishing" ELSE "loop"
        /\ UNCHANGED <<exit_code, run_error, Working, interrupted>>
     \/ /\ UNCHANGED <<events, commits>>
        /\ interrupted' = interrupted \cup {Len(events)}
        /\ Exit(1, "append")

\* kernel.rs:94-100: append_termination("done", ...)?; break.
AppendTerminationDone ==
  /\ pc = "finishing"
  /\ UNCHANGED <<Config, Static, Ghosts, tool_execs, commits, runs, calls>>
  /\ \/ /\ events' = Inserted(events, goal_id,
                       NewEvent("termination", TerminationPayload("done", DoneDetails(output))))
        /\ Exit(0, "none")
     \/ /\ UNCHANGED events
        /\ Exit(1, "append")

\* The process is killed, or its future dropped, at an await point: nothing
\* is appended for the step under way.
Crash ==
  /\ pc # "idle"
  /\ Exit(137, "killed")
  /\ interrupted' = IF pc \in {"acted", "executed"}
                      THEN interrupted \cup {Len(events)}
                      ELSE interrupted
  /\ UNCHANGED <<events, Config, Static, resumed, run_base, tool_execs, commits, runs, calls>>

Next ==
  \/ \E g \in GoalIds, n \in 0..MaxIter : BootstrapResume(g, n)
  \/ \E g \in GoalIds, n \in 0..MaxIter : BootstrapNew(g, n)
  \/ LoopCap
  \/ LoadHistory
  \/ \E a \in Actions : NextAction(a)
  \/ NextActionFails
  \/ AppendAction
  \/ ExecuteTool
  \/ AppendToolOutput
  \/ AppendTerminationDone
  \/ Crash

Spec == Init /\ [][Next]_vars

\* A step of Kernel::run: each store, model and tool call returns, with a
\* value or an error.
KernelStep ==
  \/ LoopCap
  \/ LoadHistory
  \/ \E a \in Actions : NextAction(a)
  \/ NextActionFails
  \/ AppendAction
  \/ ExecuteTool
  \/ AppendToolOutput
  \/ AppendTerminationDone

\* ------------------------------------------------------------- properties
Kinds(log) == [i \in 1..Len(log) |-> log[i].type]

LastRow == events[Len(events)]

IsActionRow(r) == r.type = "action"

IsToolCallRow(r) == r.type = "action" /\ IsToolCall(r.payload)

IsMessageRow(r) == r.type = "action" /\ ~IsToolCall(r.payload)

IsOutputRowOf(r, tc) == r.type = "tool_output" /\ r.payload.tool_call_id = tc.id

IsTerminationRow(r, reason) == r.type = "termination" /\ r.payload.reason = reason

\* Kernel::run returned Ok(()) and the process exited.
Completed == pc = "idle" /\ runs > 0 /\ run_error = "none"

\* The events the current (or last) run appended to its goal.
RunRows == SubSeq(Load(goal_id), run_base + 1, Len(Load(goal_id)))

ToolCallRowCount == Cardinality({i \in 1..Len(events) : IsToolCallRow(events[i])})

ToolOutputRowCount == Cardinality({i \in 1..Len(events) : events[i].type = "tool_output"})

DoneTerminationCount ==
  Cardinality({i \in 1..Len(events) : IsTerminationRow(events[i], "done")})

\* C1: for every goal, what load returns starts with exactly one goal event
\* and holds at most one termination event, which is then the last event.
C1_OneGoalOneTermination ==
  \A g \in GoalIds :
    LET log == Load(g)
    IN  log # <<>> =>
          /\ log[1].type = "goal"
          /\ \A i \in 2..Len(log) : log[i].type # "goal"
          /\ \A i \in 1..Len(log) : log[i].type = "termination" => i = Len(log)

\* C2: a tool executes only when the last row is the appended action event
\* of its call; a termination with reason done is appended only right after
\* the tool_output event of a done call; a failed append is followed by
\* neither: the run ends there, and there are never more executions than
\* appended tool-call actions, nor more done terminations than tool outputs.
C2_AppendBeforeNextStep ==
  [][ /\ pc' = "executed" =>
           /\ events # <<>>
           /\ LastRow = [goal_id |-> goal_id, type |-> "action", payload |-> action]
           /\ IsToolCall(action)
           /\ events' = events
      /\ tool_execs' # tool_execs =>
           /\ pc' = "executed"
           /\ tool_execs' = Append(tool_execs, action.ToolCall)
      /\ (Len(events') > Len(events) /\ IsTerminationRow(events'[Len(events')], "done")) =>
           /\ Len(events) >= 2
           /\ LastRow.goal_id = goal_id
           /\ IsToolCallRow(events[Len(events) - 1])
           /\ events[Len(events) - 1].payload.ToolCall.name = "done"
           /\ IsOutputRowOf(LastRow, events[Len(events) - 1].payload.ToolCall)
      /\ run_error' = "append" => (pc' = "idle" /\ events' = events /\ tool_execs' = tool_execs)
      /\ Len(tool_execs) <= ToolCallRowCount
      /\ DoneTerminationCount <= ToolOutputRowCount
    ]_vars

\* C2 witness: a run that executed tools and ended with the done termination.
C2_Witness ==
  /\ Completed
  /\ events # <<>>
  /\ IsTerminationRow(LastRow, "done")
  /\ Len(tool_execs) >= 2

\* C3: every appended ToolCall action has, later in its goal's log, a
\* tool_output with its tool_call_id, unless the run was cut (killed, or the
\* append failed) between the two appends; while the run is between the two
\* appends the action is the last row.
C3_ToolCallHasOutput ==
  \A i \in 1..Len(events) :
    IsToolCallRow(events[i]) =>
      \/ \E j \in (i + 1)..Len(events) :
           /\ events[j].goal_id = events[i].goal_id
           /\ IsOutputRowOf(events[j], events[i].payload.ToolCall)
      \/ i \in interrupted
      \/ i = Len(events) /\ pc \in {"acted", "executed"}

\* C3 witness: the loop went on after a tool call whose output was journaled.
C3_Witness ==
  /\ pc = "loop"
  /\ Len(events) >= 3
  /\ IsToolCallRow(events[Len(events) - 1])
  /\ IsOutputRowOf(LastRow, events[Len(events) - 1].payload.ToolCall)
  /\ (Len(events) - 1) \notin interrupted

\* C4: the completed first run of a fresh goal leaves goal, then the
\* iterations, then one termination: every ToolCall action is immediately
\* followed by its own tool_output, a Message action by no tool_output, a done
\* call's output by the termination with reason done, and nothing follows the
\* termination; when the model answered k tool calls other than done and then
\* done, the kinds are goal, (action, tool_output) k+1 times, termination.
C4_FreshRunLog ==
  (Completed /\ ~resumed) =>
    LET log == Load(goal_id)
        n == Len(log)
    IN  /\ n >= 2
        /\ log[1].type = "goal"
        /\ log[n].type = "termination"
        /\ \A i \in 2..(n - 1) :
             /\ log[i].type \in {"action", "tool_output"}
             /\ IsToolCallRow(log[i]) =>
                  /\ IsOutputRowOf(log[i + 1], log[i].payload.ToolCall)
                  /\ log[i].payload.ToolCall.name = "done" =>
                       (i + 2 = n /\ IsTerminationRow(log[n], "done"))
             /\ IsMessageRow(log[i]) => log[i + 1].type # "tool_output"
             /\ log[i].type = "tool_output" => IsToolCallRow(log[i - 1])
        /\ ((\A i \in 2..(n - 1) : ~IsMessageRow(log[i])) /\ IsTerminationRow(log[n], "done")) =>
             \E m \in 1..max_iterations :
               /\ n = 2 * m + 2
               /\ Kinds(log) = [i \in 1..n |->
                                  IF i = 1 THEN "goal"
                                  ELSE IF i = n THEN "termination"
                                  ELSE IF i % 2 = 0 THEN "action" ELSE "tool_output"]
               /\ \A t \in 1..m : log[2 * t].payload.ToolCall.name = "done" <=> t = m

\* C4 witness: a fresh run of one tool call other than done, then done.
C4_Witness ==
  /\ Completed
  /\ ~resumed
  /\ Kinds(Load(goal_id)) =
       <<"goal", "action", "tool_output", "action", "tool_output", "termination">>
  /\ IsTerminationRow(Load(goal_id)[6], "done")

\* C5: with max_iterations = N and a model that answered only Messages, a
\* completed run appended exactly N action events and then one termination
\* with reason max_iterations, and no tool_output; the model is only called in
\* iterations 1..N, so never when N = 0.
C5_MessagesUntilCap ==
  /\ pc \notin {"idle", "loop"} => iteration \in 1..max_iterations
  /\ (Completed /\ \A i \in 1..Len(RunRows) : ~IsToolCallRow(RunRows[i])) =>
       /\ Len(RunRows) = max_iterations + 1
       /\ \A i \in 1..max_iterations : IsMessageRow(RunRows[i])
       /\ IsTerminationRow(RunRows[max_iterations + 1], "max_iterations")

\* C5 witness: two Messages, then the cap.
C5_Witness ==
  /\ Completed
  /\ max_iterations = 2
  /\ Len(RunRows) = 3
  /\ IsMessageRow(RunRows[1])
  /\ IsMessageRow(RunRows[2])
  /\ IsTerminationRow(RunRows[3], "max_iterations")

\* C6: the termination appended after a done call has the payload
\* { reason: "done", details: output }, details being exactly the output
\* journaled in that call's tool_output event.
C6_DoneDetailsIsOutput ==
  \A i \in 1..Len(events) :
    IsTerminationRow(events[i], "done") =>
      /\ i > 1
      /\ events[i - 1].type = "tool_output"
      /\ DOMAIN events[i].payload = {"reason", "details"}
      /\ events[i].payload.details = events[i - 1].payload.output

\* C7: every tool_output payload has the three fields tool_call_id, name and
\* output; tool_call_id and name are those of the call just executed, and
\* output is the tool's success value or { error: <string> }.
C7_ToolOutputPayloadFields ==
  \A i \in 1..Len(events) :
    events[i].type = "tool_output" =>
      /\ i > 1
      /\ IsToolCallRow(events[i - 1])
      /\ DOMAIN events[i].payload = {"tool_call_id", "name", "output"}
      /\ events[i].payload.tool_call_id = events[i - 1].payload.ToolCall.id
      /\ events[i].payload.name = events[i - 1].payload.ToolCall.name

\* C8: a failing tool does not stop the kernel.  A call of a name the
\* registry does not hold is journaled with { error: "Tool <name> not found" },
\* a failed execute with { error: <message> }; an error output is appended as
\* the call's tool_output and the loop goes on (to the termination only after
\* done), unless that append fails or the process is killed; no termination
\* has another reason than done or max_iterations.
C8_ToolFailureContinues ==
  [][ /\ (pc = "acted" /\ pc' = "executed") =>
           /\ action.ToolCall.name \notin RegisteredTools =>
                output' = [error |-> <<"Tool ", action.ToolCall.name, " not found">>]
           /\ action.ToolCall.name \in RegisteredTools =>
                \E r \in ToolResults(action.ToolCall) :
                  output' = IF r.ok THEN r.value ELSE [error |-> r.value]
      /\ (pc = "executed" /\ "error" \in DOMAIN output /\ pc' # pc) =>
           \/ /\ events' = Append(events,
                    [goal_id |-> goal_id, type |-> "tool_output",
                     payload |-> [tool_call_id |-> action.ToolCall.id, output |-> output]])
              /\ pc' = IF action.ToolCall.name = "done" THEN "finishing" ELSE "loop"
              /\ run_error' = "none"
           \/ /\ events' = events
              /\ pc' = "idle"
              /\ run_error' \in {"append", "killed"}
      /\ \A i \in 1..Len(events') :
           events'[i].type = "termination" =>
             events'[i].payload.reason \in {"done", "max_iterations"}
    ]_vars

\* C8 witness: after a journaled { error: ... } output the run took its next
\* action.
C8_Witness ==
  /\ Len(events) >= 4
  /\ events[Len(events) - 1].type = "tool_output"
  /\ "error" \in DOMAIN events[Len(events) - 1].payload.output
  /\ IsActionRow(LastRow)
  /\ LastRow.goal_id = events[Len(events) - 1].goal_id
  /\ run_base < Len(Load(goal_id)) - 2

\* C9: when load or next_action fails in an iteration, run returns the error
\* and the process exits with code 1; the failing step appends nothing, and
\* at a model failure the goal's log is still exactly what the iteration
\* loaded: the events committed before, in order.
C9_ModelFailureKeepsLog ==
  [][ /\ pc = "loaded" => history = Load(goal_id)
      /\ (pc # "idle" /\ run_error' \in {"load", "model"}) =>
           /\ pc' = "idle"
           /\ exit_code' = 1
           /\ events' = events
           /\ pc \in {"loop", "loaded"}
      /\ (pc = "loaded" /\ pc' = "idle" /\ run_error' # "killed") =>
           (run_error' = "model" /\ events' = events)
    ]_vars

\* C9 witness: the model failed in the second iteration of a run.
C9_Witness ==
  /\ pc = "idle"
  /\ run_error = "model"
  /\ exit_code = 1
  /\ Len(Load(goal_id)) > run_base

\* C10 as stated: resumed on the log [goal, action, tool_output], the kernel
\* loads exactly those three events and is then in iteration 2.
C10_ResumeAtIterationTwo ==
  (/\ resumed
   /\ pc = "loaded"
   /\ Len(history) = run_base
   /\ Kinds(history) = <<"goal", "action", "tool_output">>) =>
    /\ history = Load(goal_id)
    /\ iteration = 2

\* C10 amended: a stored log [goal, action, tool_output] was left by a run that
\* did not complete; resumed on it, the kernel's first load returns exactly
\* those three events, its next events go after them, and its iteration
\* counter starts again at 1.
C10_ResumeLoadsLogAndRestartsCounter ==
  /\ (pc = "idle" /\ runs > 0 /\ Kinds(Load(goal_id)) = <<"goal", "action", "tool_output">>) =>
       run_error # "none"
  /\ (resumed /\ pc # "idle") =>
       /\ Len(Load(goal_id)) >= run_base
       /\ Len(history) = run_base => iteration <= 1
  /\ (/\ resumed
      /\ pc = "loaded"
      /\ Len(history) = run_base
      /\ Kinds(history) = <<"goal", "action", "tool_output">>) =>
       /\ history = Load(goal_id)
       /\ Len(Load(goal_id)) = 3
       /\ iteration = 1

\* C10 witness: the first load of a run resumed on [goal, action, tool_output].
C10_Witness ==
  /\ resumed
  /\ pc = "loaded"
  /\ run_base = 3
  /\ Kinds(history) = <<"goal", "action", "tool_output">>
  /\ iteration = 1

\* The rowids of the rows of goal g, in load order.
RowIds(g) == SelectSeq([i \in 1..Len(events) |-> i], LAMBDA i : events[i].goal_id = g)

\* The running process was resumed on a log whose last event is a ToolCall
\* action that was cut off from its tool_output.
ResumedOnOrphan ==
  /\ resumed
  /\ pc # "idle"
  /\ run_base >= 1
  /\ Len(RowIds(goal_id)) >= run_base
  /\ RowIds(goal_id)[run_base] \in interrupted
  /\ IsToolCallRow(events[RowIds(goal_id)[run_base]])

OrphanCall == events[RowIds(goal_id)[run_base]].payload.ToolCall

\* The first iteration of the running process is over.
FirstIterationOver ==
  \/ pc = "loop" /\ iteration = 1
  \/ pc = "finishing" /\ iteration = 1

\* C11 as stated: resumed on a log that ends with a ToolCall action without
\* its tool_output, the first iteration re-runs that call and journals its
\* tool_output.
C11_ResumeRerunsOrphan ==
  (ResumedOnOrphan /\ FirstIterationOver) =>
    /\ Len(Load(goal_id)) > run_base
    /\ \E k \in (run_base + 1)..Len(Load(goal_id)) :
         IsOutputRowOf(Load(goal_id)[k], OrphanCall)

\* C11, what the code does on resume: the resumed run loads exactly the stored prefix, ending with
\* the cut-off action, and hands it to the model; nothing is executed or
\* journaled for that action from the log itself: the first event after it is
\* a new action (or the cap's termination), and the call is run again, and its
\* tool_output journaled, exactly when the model answers that call again.
C11_ResumeAsksModelAgain ==
  ResumedOnOrphan =>
    LET log == Load(goal_id)
    IN  /\ (pc = "loaded" /\ iteration = 1) =>
             (history = log /\ Len(log) = run_base /\ IsToolCallRow(history[run_base]))
        /\ Len(log) > run_base => log[run_base + 1].type \in {"action", "termination"}
        /\ (iteration = 1 /\ pc \in {"loop", "acted", "executed", "finishing"}) =>
             /\ IsActionRow(log[run_base + 1])
             /\ (pc \in {"loop", "finishing"} /\ log[run_base + 1].payload = ToolCallAction(OrphanCall)) =>
                  /\ Len(log) = run_base + 2
                  /\ IsOutputRowOf(log[run_base + 2], OrphanCall)
                  /\ OrphanCall.name \in RegisteredTools =>
                       (tool_execs # <<>> /\ tool_execs[Len(tool_execs)] = OrphanCall)
             /\ (pc = "loop" /\ log[run_base + 1].payload # ToolCallAction(OrphanCall)) =>
                  \A k \in (run_base + 1)..Len(log) : ~IsOutputRowOf(log[k], OrphanCall)

\* C11 witness: the model answered the cut-off call again and its output is
\* journaled.
C11_Witness ==
  /\ ResumedOnOrphan
  /\ pc = "loop"
  /\ iteration = 1
  /\ Len(Load(goal_id)) = run_base + 2
  /\ Load(goal_id)[run_base + 1].payload = ToolCallAction(OrphanCall)
  /\ IsOutputRowOf(Load(goal_id)[run_base + 2], OrphanCall)

\* Steps a run can still take: the iterations left, and the rest of this one.
StepsLeft ==
  6 * (max_iterations - iteration) +
    (CASE pc = "loaded" -> 5
       [] pc = "decided" -> 4
       [] pc = "acted" -> 3
       [] pc = "executed" -> 2
       [] pc = "finishing" -> 1
       [] OTHER -> 0)

\* C12: a run halts when every call returns: a running kernel always has a
\* step to take and every step of it lowers StepsLeft, which is never
\* negative; it calls the model once per iteration and only in iterations
\* 1..max_iterations; after the tool_output of a done call it only appends
\* the termination; a termination is appended at the cap or after done and
\* ends the run, so nothing follows it in the run; a store or model error
\* ends the run.
C12_RunHalts ==
  [][ /\ pc # "idle" => (StepsLeft >= 0 /\ ENABLED KernelStep)
      /\ (pc # "idle" /\ pc' # "idle") => StepsLeft' < StepsLeft
      /\ pc' = "loaded" =>
           (pc = "loop" /\ iteration' = iteration + 1 /\ iteration' <= max_iterations)
      /\ calls' # calls =>
           /\ pc = "loaded"
           /\ pc' = "decided"
           /\ calls' = calls + 1
           /\ iteration' = iteration
           /\ iteration \in 1..max_iterations
      /\ (pc = "executed" /\ action.ToolCall.name = "done" /\ events' # events) =>
           pc' = "finishing"
      /\ pc = "finishing" =>
           (pc' = "idle" /\ (events' # events => IsTerminationRow(events'[Len(events')], "done")))
      /\ (Len(events') > Len(events) /\ events'[Len(events')].type = "termination") =>
           /\ pc' = "idle"
           /\ run_error' = "none"
           /\ \/ pc = "finishing" /\ IsTerminationRow(events'[Len(events')], "done")
              \/ /\ pc = "loop"
                 /\ iteration >= max_iterations
                 /\ IsTerminationRow(events'[Len(events')], "max_iterations")
      /\ run_error' \in {"append", "load", "model"} => (pc' = "idle" /\ events' = events)
    ]_vars

\* C12 witness: a run of at least one iteration has halted with a termination.
C12_Witness ==
  /\ pc = "idle"
  /\ run_error = "none"
  /\ max_iterations >= 1
  /\ Len(RunRows) >= 2
  /\ RunRows[Len(RunRows)].type = "termination"

\* ------------------------------------------------------------- durable store
\* Rows the events table may hold.
MaxRows == 3

\* Instants the wall clock may show when an event is built; it may stand
\* still or step back between two events.
MaxClock == 2

\* The two SqliteStateStore implementations of the repository.
Drafts == {"sqlite_state", "state"}

\* Utc::now().timestamp_nanos_opt().unwrap_or_default().to_string()
\* (event.rs:15): the decimal text of the clock reading, equal for two events
\* built in the same tick.
NanosToString(t) == <<"nanos", t>>

\* Events handed to append_event: Event::new stamps Utc::now() (event.rs:13-23).
StoreEvents ==
  {[id |-> NanosToString(t), timestamp |-> t, type |-> ty, payload |-> [text |-> "x"]] :
     t \in 1..MaxClock, ty \in {"action", "tool_output"}}

\* SqliteJsonValue::to_sql: the JSON text of the value (sqlite_state.rs:17-21).
JsonToSql(v) == <<"json", v>>

\* SqliteJsonValue::column_result: serde_json::from_str (sqlite_state.rs:23-35).
JsonFromSql(text) == text[2]

\* SqliteDateTime::to_sql: to_rfc3339 (sqlite_state.rs:39-43).
DateTimeToSql(t) == <<"rfc3339", t>>

\* SqliteDateTime::column_result: parse_from_rfc3339 (sqlite_state.rs:45-57).
DateTimeFromSql(text) == text[2]

\* One row of a SELECT type, payload, timestamp; the id is not read back:
\* id: String::new(), the empty string (sqlite_state.rs:101, state.rs:112).
RowEvent(r) ==
  [id |-> <<>>, timestamp |-> DateTimeFromSql(r.timestamp), type |-> r.type,
   payload |-> JsonFromSql(r.payload)]

\* WHERE goal_id = ?1, in rowid order.
GoalRows(g) == SelectSeq(table, LAMBDA r : r.goal_id = g)

\* ... ORDER BY id (sqlite_state.rs:85-87).
LoadOrderById(g) ==
  LET rows == GoalRows(g)
  IN  {[i \in 1..Len(rows) |-> RowEvent(rows[i])]}

\* ... ORDER BY timestamp (state.rs:109): the rows sorted by the timestamp
\* column; SQL leaves the order of rows with equal keys open.
LoadOrderByTimestamp(g) ==
  LET rows == GoalRows(g)
      n == Len(rows)
      Orders == {f \in [1..n -> 1..n] :
                   /\ \A i, j \in 1..n : f[i] = f[j] => i = j
                   /\ \A i \in 1..n : \A j \in (i + 1)..n :
                        DateTimeFromSql(rows[f[i]].timestamp) <=
                          DateTimeFromSql(rows[f[j]].timestamp)}
  IN  {[i \in 1..n |-> RowEvent(rows[f[i]])] : f \in Orders}

\* INSERT INTO events (goal_id, type, payload, timestamp) VALUES (...)
\* (sqlite_state.rs:109-124, state.rs:125-133): the id is the next rowid; a
\* failed INSERT leaves the table as it was.
StoreAppend(g, e) ==
  /\ Len(table) < MaxRows
  /\ loaded' = <<>>
  /\ loaded_goal' = ""
  /\ \/ /\ table' = Append(table,
                   [id |-> Len(table) + 1, goal_id |-> g, type |-> e.type,
                    payload |-> JsonToSql(e.payload),
                    timestamp |-> DateTimeToSql(e.timestamp)])
        /\ appended' = Append(appended, [goal_id |-> g, event |-> e])
        /\ store_result' = "ok"
     \/ /\ store_result' = "error"
        /\ UNCHANGED <<table, appended>>
  /\ UNCHANGED <<NotStore, draft>>

\* load(goal_id) (sqlite_state.rs:80-107, state.rs:107-123).
StoreLoad(g) ==
  /\ \/ /\ loaded' \in (IF draft = "sqlite_state" THEN LoadOrderById(g)
                                                  ELSE LoadOrderByTimestamp(g))
        /\ loaded_goal' = g
        /\ store_result' = "ok"
     \/ /\ store_result' = "error"
        /\ loaded' = <<>>
        /\ loaded_goal' = ""
  /\ UNCHANGED <<NotStore, draft, table, appended>>

StoreInit ==
  /\ KernelIdle
  /\ HooksIdle
  /\ FsIdle
  /\ WriteIdle
  /\ PatchIdle
  /\ LaterIdle
  /\ draft \in Drafts
  /\ table = <<>>
  /\ appended = <<>>
  /\ loaded = <<>>
  /\ loaded_goal = ""
  /\ store_result = "none"

StoreNext ==
  \/ \E g \in GoalIds : \E e \in StoreEvents : StoreAppend(g, e)
  \/ \E g \in GoalIds : StoreLoad(g)

StoreSpec == StoreInit /\ [][StoreNext]_vars

\* The events appended for goal g, in the order their appends returned.
AppendedFor(g) ==
  LET mine == SelectSeq(appended, LAMBDA a : a.goal_id = g)
  IN  [i \in 1..Len(mine) |-> mine[i].event]

\* What the claim compares of an event.
KindPayloadTime(log) ==
  [i \in 1..Len(log) |->
     [type |-> log[i].type, payload |-> log[i].payload, timestamp |-> log[i].timestamp]]

LoadedInInsertionOrder == KindPayloadTime(loaded) = KindPayloadTime(AppendedFor(loaded_goal))

\* C13: with either store, a load returns the events appended for the goal so
\* far, each once, in insertion order, with kind, payload and timestamp as
\* appended, whatever the timestamps are.
C13_LoadReturnsInsertionOrder == loaded_goal # "" => LoadedInInsertionOrder

\* The ids of the events of a log.
IdsOf(log) == {log[i].id : i \in 1..Len(log)}

\* C35: the events a load returns for a goal have pairwise distinct ids,
\* and the id of each is the id under which that event was appended.
C35_IdsSurviveRoundTrip ==
  loaded_goal # "" =>
    /\ \A i, j \in 1..Len(loaded) : i # j => loaded[i].id # loaded[j].id
    /\ Len(loaded) = Len(AppendedFor(loaded_goal))
    /\ IdsOf(loaded) = IdsOf(AppendedFor(loaded_goal))

\* Every event either store loads has the empty string as its id.
LoadedIdsAreEmpty == \A i \in 1..Len(loaded) : loaded[i].id = <<>>

\* ------------------------------------------------------------- event hooks
\* Hooks registered with the store, in registration order.
MaxHooks == 2

\* append_event calls made on the store.
MaxAppends == 2

\* The hooks vector (runtime_hooks.rs:21).
Hooks == 1..MaxHooks

\* for hook in &self.hooks: only the first hooks, up to the one that fails.
HookCallsUntilFailure(e, fails) ==
  LET failing == {i \in Hooks : fails[i]}
      last == IF failing = {} THEN MaxHooks
              ELSE CHOOSE i \in failing : \A j \in failing : i <= j
  IN  [i \in 1..last |-> [hook |-> i, event |-> e, failed |-> fails[i]]]

\* for hook in &self.hooks { if let Err(error) = hook.on_event(&event).await
\* { eprintln!(...) } } (runtime_hooks.rs:39-43): fails[i] tells whether hook
\* i returns Err.
HookCalls(e, fails) ==
  [i \in Hooks |-> [hook |-> i, event |-> e, failed |-> fails[i]]]

\* The Err results among some on_event calls.
FailedCalls(cs) == Cardinality({i \in 1..Len(cs) : cs[i].failed})

\* HookedStateStore::append_event (runtime_hooks.rs:36-46):
\* self.inner.append_event(event.clone()).await? comes first.
HookedAppend(e) ==
  /\ Len(inner) < MaxAppends
  /\ \/ /\ inner' = Append(inner, e)
        /\ \E fails \in [Hooks -> BOOLEAN] :
             /\ hook_calls' = hook_calls \o HookCalls(e, fails)
             /\ warnings' = warnings + FailedCalls(HookCalls(e, fails))
        /\ hooked_result' = "ok"
     \/ /\ hooked_result' = "error"
        /\ UNCHANGED <<inner, hook_calls, warnings>>
  /\ UNCHANGED NotHooks

HooksInit ==
  /\ KernelIdle
  /\ StoreIdle
  /\ HooksIdle
  /\ FsIdle
  /\ WriteIdle
  /\ PatchIdle
  /\ LaterIdle

HooksNext == \E e \in StoreEvents : HookedAppend(e)

HooksSpec == HooksInit /\ [][HooksNext]_vars

\* C14: an append_event that reaches the wrapped store calls every hook once,
\* in registration order, with the appended event, whichever of them fail,
\* and returns Ok with the event kept; one that fails in the wrapped store
\* calls no hook, returns the error and leaves the store as it was.
C14_HooksObserveAppends ==
  [][ /\ hooked_result' = "ok" =>
           /\ Len(inner') = Len(inner) + 1
           /\ Len(hook_calls') = Len(hook_calls) + MaxHooks
           /\ \A i \in Hooks :
                /\ hook_calls'[Len(hook_calls) + i].hook = i
                /\ hook_calls'[Len(hook_calls) + i].event = inner'[Len(inner')]
           /\ SubSeq(inner', 1, Len(inner)) = inner
           /\ SubSeq(hook_calls', 1, Len(hook_calls)) = hook_calls
      /\ hooked_result' = "error" => UNCHANGED <<inner, hook_calls, warnings>>
      /\ hooked_result' \in {"ok", "error"}
    ]_vars

\* C14 witness: the first hook failed on an event, the second hook was still
\* called with it, the append returned Ok and the event is in the store.
C14_Witness ==
  /\ hooked_result = "ok"
  /\ Len(hook_calls) >= MaxHooks
  /\ hook_calls[Len(hook_calls) - MaxHooks + 1].failed
  /\ hook_calls[Len(hook_calls)].hook = MaxHooks
  /\ hook_calls[Len(hook_calls)].event = inner[Len(inner)]
  /\ warnings > 0

\* ------------------------------------------------------------- filesystem tools
\* Tool calls executed in one behaviour.
MaxToolCalls == 2

\* Instants the filesystem clock may show.
MaxTime == 2

\* Option<T>.
None == <<"none">>

Some(v) == <<"some", v>>

\* Result<Value>: Ok(json) and Err(anyhow error, by its context).
Ok(v) == [ok |-> TRUE, value |-> v]

Err(msg) == [ok |-> FALSE, error |-> msg]

\* File contents and texts of the calls: sequences of characters.
Texts == {<<"a">>, <<"a", "b", "a">>}

File(content, mtime) == [exists |-> TRUE, content |-> content, mtime |-> mtime]

\* path.parent(): "" is the working directory, which exists.
Parent(path) == IF path = "d/x.txt" THEN "d" ELSE ""

ParentExists(D, path) == Parent(path) = "" \/ Parent(path) \in D

\* compute_hash (fs.rs:837-846): SHA-256 of the bytes, taken as injective.
compute_hash(data) == <<"sha256", data>>

\* gather_file_metadata (fs.rs:780-800): FileMetadata::default() when the
\* path is not found.
gather_file_metadata(F, path) ==
  IF F[path].exists
  THEN [hash |-> Some(compute_hash(F[path].content)),
        mtime_unix_ms |-> Some(F[path].mtime),
        size_bytes |-> Some(Len(F[path].content))]
  ELSE [hash |-> None, mtime_unix_ms |-> None, size_bytes |-> None]

\* Precondition::evaluate (fs.rs:731-777) that never looks at the size.
EvaluateWithoutSize(pre, F, path) ==
  LET actual == gather_file_metadata(F, path)
      mismatch ==
        \/ pre.expected_hash # None /\ actual.hash # pre.expected_hash
        \/ pre.expected_mtime_unix_ms # None /\ actual.mtime_unix_ms # pre.expected_mtime_unix_ms
  IN  IF mismatch
      THEN Some([success |-> FALSE, error |-> "precondition_failed", path |-> path,
                 expected |-> [hash |-> pre.expected_hash,
                               mtime_unix_ms |-> pre.expected_mtime_unix_ms,
                               size_bytes |-> pre.expected_size_bytes],
                 actual |-> actual])
      ELSE None

\* Precondition::evaluate (fs.rs:731-777): the maps of the conflict hold a key
\* for each field that is Some.
Evaluate(pre, F, path) ==
  LET actual == gather_file_metadata(F, path)
      mismatch ==
        \/ pre.expected_hash # None /\ actual.hash # pre.expected_hash
        \/ pre.expected_mtime_unix_ms # None /\ actual.mtime_unix_ms # pre.expected_mtime_unix_ms
        \/ pre.expected_size_bytes # None /\ actual.size_bytes # pre.expected_size_bytes
  IN  IF mismatch
      THEN Some([success |-> FALSE, error |-> "precondition_failed", path |-> path,
                 expected |-> [hash |-> pre.expected_hash,
                               mtime_unix_ms |-> pre.expected_mtime_unix_ms,
                               size_bytes |-> pre.expected_size_bytes],
                 actual |-> actual])
      ELSE None

\* apply_precondition (fs.rs:802-812): only a "precondition" key of the input
\* is looked at.
apply_precondition(input, F, path) ==
  IF input.precondition # None THEN Evaluate(input.precondition[2], F, path) ELSE None

\* What a call leaves behind.
Outcome(F, D, result) == [files |-> F, dirs |-> D, result |-> result]

\* write_atomically (fs.rs:854-892) as one step: the temporary file is made
\* in the parent directory and renamed over the path; any of its steps may
\* fail, and then the guard removes the temporary file.
write_atomically(F, D, path, data, t, value, context) ==
  IF ParentExists(D, path)
  THEN {Outcome([F EXCEPT ![path] = File(data, t)], D, Ok(value)),
        Outcome(F, D, Err(context))}
  ELSE {Outcome(F, D, Err(context))}

\* OpenOptions write+create+append, write_all, flush (fs.rs:162-171, 392-400).
AppendTo(F, D, path, content, t, value, context) ==
  IF ParentExists(D, path)
  THEN {Outcome([F EXCEPT ![path] =
                    File((IF F[path].exists THEN F[path].content ELSE <<>>) \o content, t)],
                D, Ok(value))}
  ELSE {Outcome(F, D, Err(context))}

\* WriteFileTool::execute (fs.rs:143-181).
WriteFile(input, F, D, t) ==
  LET conflict == apply_precondition(input, F, input.path)
  IN  IF conflict # None THEN {Outcome(F, D, Ok(conflict[2]))}
      ELSE IF input.mode = "append"
      THEN AppendTo(F, D, input.path, input.content, t,
                    [path |-> input.path, mode |-> input.mode],
                    "failed to open target file")
      ELSE write_atomically(F, D, input.path, input.content, t,
                            [path |-> input.path, mode |-> input.mode],
                            "failed to perform atomic write")

\* CreateFileTool::execute (fs.rs:295-323) without the metadata test.
CreateFileOverwriting(input, F, D, t) ==
  LET conflict == apply_precondition(input, F, input.path)
  IN  IF conflict # None THEN {Outcome(F, D, Ok(conflict[2]))}
      ELSE write_atomically(F, D, input.path, input.content, t,
                            [path |-> input.path, created |-> TRUE],
                            "failed to create file atomically")

\* CreateFileTool::execute (fs.rs:295-323).
CreateFile(input, F, D, t) ==
  LET conflict == apply_precondition(input, F, input.path)
  IN  IF conflict # None THEN {Outcome(F, D, Ok(conflict[2]))}
      ELSE IF F[input.path].exists
      THEN {Outcome(F, D, Ok([success |-> FALSE, error |-> "already_exists",
                              path |-> input.path]))}
      ELSE write_atomically(F, D, input.path, input.content, t,
                            [path |-> input.path, created |-> TRUE],
                            "failed to create file atomically")

\* AppendFileTool::execute (fs.rs:377-407).
AppendFile(input, F, D, t) ==
  LET conflict == apply_precondition(input, F, input.path)
  IN  IF conflict # None THEN {Outcome(F, D, Ok(conflict[2]))}
      ELSE AppendTo(F, D, input.path, input.content, t,
                    [path |-> input.path, appended_bytes |-> Len(input.content)],
                    "failed to open target file")

\* str::find: the byte offset of the first match, -1 for Option::None.
Find(s, pat) ==
  LET hits == {i \in 0..(Len(s) - Len(pat)) : SubSeq(s, i + 1, i + Len(pat)) = pat}
  IN  IF hits = {} THEN -1 ELSE CHOOSE i \in hits : \A j \in hits : i <= j

\* str::matches(pat): the offsets of the matches, left to right and not
\* overlapping; the empty pattern matches at every offset 0..len.
RECURSIVE MatchOffsets(_, _, _)
MatchOffsets(s, pat, from) ==
  IF pat = <<>> THEN [i \in 1..(Len(s) - from + 1) |-> from + i - 1]
  ELSE LET idx == Find(SubSeq(s, from + 1, Len(s)), pat)
       IN  IF idx < 0 THEN <<>>
           ELSE <<from + idx>> \o MatchOffsets(s, pat, from + idx + Len(pat))

\* The loop of replace_n (fs.rs:822-831).
RECURSIVE ReplaceLoop(_, _, _, _)
ReplaceLoop(rest, from, to, remaining) ==
  IF remaining > 0 /\ Find(rest, from) >= 0
  THEN LET idx == Find(rest, from)
       IN  SubSeq(rest, 1, idx) \o to \o
             ReplaceLoop(SubSeq(rest, idx + Len(from) + 1, Len(rest)), from, to, remaining - 1)
  ELSE rest

\* replace_n (fs.rs:814-835).
replace_n(source, from, to, remaining) ==
  IF remaining = 0 THEN source ELSE ReplaceLoop(source, from, to, remaining)

\* ReplaceInFileTool::execute (fs.rs:474-523).
ReplaceInFile(input, F, D, t) ==
  LET conflict == apply_precondition(input, F, input.path)
      expected_matches == IF input.expected_matches = None THEN 1 ELSE input.expected_matches[2]
  IN  IF conflict # None THEN {Outcome(F, D, Ok(conflict[2]))}
      ELSE IF ~F[input.path].exists THEN {Outcome(F, D, Err("failed to read target file"))}
      ELSE LET contents == F[input.path].content
               found == Len(MatchOffsets(contents, input.old_text, 0))
           IN  IF found # expected_matches
               THEN {Outcome(F, D, Ok([success |-> FALSE, error |-> "unexpected_match_count",
                                       path |-> input.path,
                                       expected_matches |-> expected_matches,
                                       actual_matches |-> found]))}
               ELSE write_atomically(F, D, input.path,
                                     replace_n(contents, input.old_text, input.new_text,
                                               expected_matches),
                                     t,
                                     [path |-> input.path, replaced_matches |-> expected_matches],
                                     "failed to write replaced content")

\* Precondition blocks of the calls: each field absent or with one value.
Blocks ==
  [expected_hash : {None, Some(compute_hash(<<"a">>))},
   expected_mtime_unix_ms : {None, Some(1)},
   expected_size_bytes : {None, Some(1)}]

Preconditions == {None} \cup {Some(b) : b \in Blocks}

\* Inputs of the calls.
WriteFileInputs ==
  [tool : {"write_file"}, path : FsPaths, content : Texts,
   mode : {"overwrite", "append"}, precondition : Preconditions]

CreateFileInputs ==
  [tool : {"create_file"}, path : FsPaths, content : Texts, precondition : Preconditions]

AppendFileInputs ==
  [tool : {"append_file"}, path : FsPaths, content : Texts, precondition : Preconditions]

ReplaceInFileInputs ==
  [tool : {"replace_in_file"}, path : FsPaths, old_text : {<<>>, <<"a">>},
   new_text : {<<"b">>}, expected_matches : {None, Some(2)}, precondition : Preconditions]

\* Tool::execute of the four tools.
Run(input, F, D, t) ==
  CASE input.tool = "write_file" -> WriteFile(input, F, D, t)
    [] input.tool = "create_file" -> CreateFile(input, F, D, t)
    [] input.tool = "append_file" -> AppendFile(input, F, D, t)
    [] input.tool = "replace_in_file" -> ReplaceInFile(input, F, D, t)

\* One tool call, at a time t the clock has reached.
Execute(input) ==
  /\ fs_calls < MaxToolCalls
  /\ \E t \in fs_clock..MaxTime :
       \E o \in Run(input, files, dirs, t) :
         /\ fs_clock' = t
         /\ files' = o.files
         /\ dirs' = o.dirs
         /\ tool_result' = o.result
  /\ fs_calls' = fs_calls + 1
  /\ last_input' = input
  /\ UNCHANGED <<NotFs, patch>>

\* The working directory holds no file yet; the directory d may exist.
FsInit ==
  /\ KernelIdle
  /\ StoreIdle
  /\ HooksIdle
  /\ WriteIdle
  /\ PatchIdle
  /\ LaterIdle
  /\ files = [p \in FsPaths |-> NoFile]
  /\ dirs \in SUBSET {"d"}
  /\ fs_clock = 1
  /\ fs_calls = 0
  /\ last_input = [tool |-> "none"]
  /\ tool_result = [none |-> TRUE]

FsNext ==
  \/ \E input \in WriteFileInputs : Execute(input)
  \/ \E input \in CreateFileInputs : Execute(input)
  \/ \E input \in AppendFileInputs : Execute(input)
  \/ \E input \in ReplaceInFileInputs : Execute(input)

FsSpec == FsInit /\ [][FsNext]_vars

\* A tool call has just been executed.
Called(tool) == fs_calls' = fs_calls + 1 /\ last_input'.tool = tool

\* Every field present in the block equals the snapshot of the file.
BlockMatches(block, F, path) ==
  LET snapshot == gather_file_metadata(F, path)
  IN  /\ block.expected_hash # None => snapshot.hash = block.expected_hash
      /\ block.expected_mtime_unix_ms # None =>
           snapshot.mtime_unix_ms = block.expected_mtime_unix_ms
      /\ block.expected_size_bytes # None => snapshot.size_bytes = block.expected_size_bytes

\* The structured precondition failure of a call.
PreconditionFailed(block, F, path) ==
  Ok([success |-> FALSE, error |-> "precondition_failed", path |-> path,
      expected |-> [hash |-> block.expected_hash,
                    mtime_unix_ms |-> block.expected_mtime_unix_ms,
                    size_bytes |-> block.expected_size_bytes],
      actual |-> gather_file_metadata(F, path)])

\* C15: a call of write_file, create_file, append_file or replace_in_file
\* with a precondition block does what the same call without the block does
\* when every present field equals the snapshot of the file, and otherwise
\* returns precondition_failed with the expected and actual fields and
\* leaves every file and directory as it was.
C15_PreconditionGuardsMutation ==
  [][ (fs_calls' = fs_calls + 1 /\ last_input'.precondition # None) =>
        LET input == last_input'
            block == input.precondition[2]
        IN  IF BlockMatches(block, files, input.path)
            THEN Outcome(files', dirs', tool_result') \in
                   Run([input EXCEPT !.precondition = None], files, dirs, fs_clock')
            ELSE /\ tool_result' = PreconditionFailed(block, files, input.path)
                 /\ files' = files
                 /\ dirs' = dirs
    ]_vars

\* C15 witness: a file was overwritten under a block whose hash, mtime and
\* size all matched it.
C15_Witness ==
  /\ fs_calls = 2
  /\ last_input.tool = "write_file"
  /\ last_input.mode = "overwrite"
  /\ last_input.precondition =
       Some([expected_hash |-> Some(compute_hash(<<"a">>)),
             expected_mtime_unix_ms |-> Some(1),
             expected_size_bytes |-> Some(1)])
  /\ tool_result = Ok([path |-> last_input.path, mode |-> "overwrite"])
  /\ files[last_input.path].content = <<"a", "b", "a">>

\* The precondition of a call, if any, lets the call go on.
Passes(input, F) ==
  input.precondition = None \/ BlockMatches(input.precondition[2], F, input.path)

AlreadyExists(path) == Ok([success |-> FALSE, error |-> "already_exists", path |-> path])

RECURSIVE ReplacedFrom(_, _, _, _, _, _, _)
ReplacedFrom(s, offs, k, n, pos, len, to) ==
  IF k > n THEN SubSeq(s, pos + 1, Len(s))
  ELSE SubSeq(s, pos + 1, offs[k]) \o to \o ReplacedFrom(s, offs, k + 1, n, offs[k] + len, len, to)

\* C18: replace_in_file on an existing file whose precondition passes: when
\* the number of matches of old_text differs from expected_matches it returns
\* unexpected_match_count with that number and leaves the file unchanged;
\* otherwise, when it returns Ok, the file is the original with the first
\* expected_matches matches, left to right, replaced by new_text.
C18_ReplaceFirstMatches ==
  [][ (Called("replace_in_file") /\ Passes(last_input', files)
         /\ files[last_input'.path].exists) =>
        LET input == last_input'
            contents == files[input.path].content
            offs == MatchOffsets(contents, input.old_text, 0)
            n == IF input.expected_matches = None THEN 1 ELSE input.expected_matches[2]
        IN  IF Len(offs) # n
            THEN /\ tool_result'.ok
                 /\ tool_result'.value.success = FALSE
                 /\ tool_result'.value.error = "unexpected_match_count"
                 /\ tool_result'.value.actual_matches = Len(offs)
                 /\ files' = files
            ELSE \/ /\ tool_result' = Ok([path |-> input.path, replaced_matches |-> n])
                    /\ files'[input.path].content =
                         ReplacedFrom(contents, offs, 1, n, 0, Len(input.old_text), input.new_text)
                    /\ \A p \in FsPaths \ {input.path} : files'[p] = files[p]
                 \/ /\ ~tool_result'.ok
                    /\ files' = files
    ]_vars

\* ------------------------------------------------------------- atomic write
\* Reads of the path the concurrent reader makes.
MaxReads == 2

\* Bytes of the data argument.
MaxData == 2

\* The path argument of write_atomically.
WPath == "x.txt"

\* A temporary name that is the path itself: writing in place.
temp_path_in_place(path) == path

\* temp_path (fs.rs:856-865): ".rx-write-{counter}-{file_name}" in the parent
\* directory; the counter of the first write is 0.
temp_path(path) == ".rx-write-0-x.txt"

Names == {WPath, temp_path(WPath)}

\* The inode of the file at the path before the write, and of the temporary file.
OldInode == 1

NewInode == 2

\* The inode of a temporary file that another write, of a process whose
\* counter had the same value, created under the same name.
OtherInode == 3

\* The file at the path before the write.
OldBytes == <<"o", "l", "d">>

\* What the other write has put in its temporary file so far.
OtherBytes == <<"t", "m", "p">>

\* The data arguments.
NewBytes == {[i \in 1..n |-> "n"] : n \in 1..MaxData}

\* Drop of an armed TempFileGuard (fs.rs:701-707): remove_file of the
\* temporary path, errors ignored.
GuardDrop(E) == [E EXCEPT ![temp_path(WPath)] = 0]

\* OpenOptions write, create_new: open(&temp_path) (fs.rs:868-873): succeeds
\* only when nothing has that name.
CreateTemp ==
  /\ w_pc = "start"
  /\ entries[temp_path(WPath)] = 0
  /\ entries' = [entries EXCEPT ![temp_path(WPath)] = NewInode]
  /\ inodes' = [inodes EXCEPT ![NewInode] = <<>>]
  /\ w_pc' = "created"
  /\ UNCHANGED <<pre_image, w_data, reader_inode, reads, read_count, NotWrite>>

\* temp_file.write_all(data) (fs.rs:874-877): the bytes reach the file one
\* write at a time.
WriteAll ==
  /\ w_pc = "created"
  /\ LET written == Len(inodes[NewInode])
     IN  /\ inodes' = [inodes EXCEPT ![NewInode] = Append(@, w_data[written + 1])]
         /\ w_pc' = IF written + 1 = Len(w_data) THEN "written" ELSE "created"
  /\ UNCHANGED <<entries, pre_image, w_data, reader_inode, reads, read_count, NotWrite>>

\* temp_file.sync_all() (fs.rs:878-881).
SyncAll ==
  /\ w_pc = "written"
  /\ w_pc' = "synced"
  /\ UNCHANGED <<entries, inodes, pre_image, w_data, reader_inode, reads, read_count, NotWrite>>

\* rename(&temp_path, path) (fs.rs:883-885): the entry of the path is
\* replaced in one step.
Rename ==
  /\ w_pc = "synced"
  /\ entries' = [[entries EXCEPT ![WPath] = entries[temp_path(WPath)]]
                   EXCEPT ![temp_path(WPath)] = IF temp_path(WPath) = WPath THEN @ ELSE 0]
  /\ w_pc' = "renamed"
  /\ UNCHANGED <<inodes, pre_image, w_data, reader_inode, reads, read_count, NotWrite>>

\* guard.disarm(); sync_parent_dir(parent); Ok(()) (fs.rs:887-891).
Disarm ==
  /\ w_pc = "renamed"
  /\ w_pc' = "done"
  /\ UNCHANGED <<entries, inodes, pre_image, w_data, reader_inode, reads, read_count, NotWrite>>

\* One of open, write_all, sync_all or rename fails: ? returns the error and
\* the guard, made before open (fs.rs:866), is dropped. open fails whenever
\* the temporary name is taken.
WriteFails ==
  /\ w_pc \in {"start", "created", "written", "synced"}
  /\ entries' = GuardDrop(entries)
  /\ w_pc' = "failed"
  /\ UNCHANGED <<inodes, pre_image, w_data, reader_inode, reads, read_count, NotWrite>>

\* Another task or process opens the path for reading.
ReaderOpen ==
  /\ reader_inode = 0
  /\ read_count < MaxReads
  /\ read_count' = read_count + 1
  /\ IF entries[WPath] = 0
     THEN /\ reads' = reads \cup {None}
          /\ UNCHANGED reader_inode
     ELSE /\ reader_inode' = entries[WPath]
          /\ UNCHANGED reads
  /\ UNCHANGED <<entries, inodes, pre_image, w_data, w_pc, NotWrite>>

\* ... and reads the file it opened to its end.
ReaderRead ==
  /\ reader_inode # 0
  /\ reads' = reads \cup {Some(inodes[reader_inode])}
  /\ reader_inode' = 0
  /\ UNCHANGED <<entries, inodes, pre_image, w_data, w_pc, read_count, NotWrite>>

\* write_atomically(path, data) is called with the path absent or holding a
\* complete file, and with the temporary name free or taken by another write.
WriteInit ==
  /\ KernelIdle
  /\ StoreIdle
  /\ HooksIdle
  /\ FsIdle
  /\ PatchIdle
  /\ LaterIdle
  /\ pre_image \in {None, Some(OldBytes)}
  /\ \E other \in {0, OtherInode} :
       /\ entries = [n \in Names |-> IF n = WPath
                                      THEN (IF pre_image # None THEN OldInode ELSE 0)
                                      ELSE other]
       /\ inodes = [i \in {OldInode, NewInode, OtherInode} |->
                      IF i = OldInode /\ pre_image # None THEN OldBytes
                      ELSE IF i = OtherInode /\ other # 0 THEN OtherBytes
                      ELSE <<>>]
  /\ w_data \in NewBytes
  /\ w_pc = "start"
  /\ reader_inode = 0
  /\ reads = {}
  /\ read_count = 0

WriteNext ==
  \/ CreateTemp
  \/ WriteAll
  \/ SyncAll
  \/ Rename
  \/ Disarm
  \/ WriteFails
  \/ ReaderOpen
  \/ ReaderRead

WriteSpec == WriteInit /\ [][WriteNext]_vars

\* C16: whatever the reader got from the path while write_atomically ran is
\* the file as it was before the write (or its absence) or the complete data,
\* and the path itself holds nothing else at any time.
C16_ReaderSeesPreOrPostImage ==
  /\ reads \subseteq {pre_image, Some(w_data)}
  /\ IF entries[WPath] = 0 THEN pre_image = None
     ELSE Some(inodes[entries[WPath]]) \in {pre_image, Some(w_data)}

\* C16 witness: the write is complete and the reader, which had the path
\* open across the rename, got the old file and then the new one.
C16_Witness ==
  /\ w_pc = "done"
  /\ pre_image # None
  /\ Len(w_data) > 1
  /\ reads = {pre_image, Some(w_data)}

\* ------------------------------------------------------------- patch DSL
\* A line of a patch text: the marker or header it starts with, and the rest
\* as a path (its components, "/" for the root) or as a text.
Line(head, tail) == [head |-> head, tail |-> tail]

BeginPatch == Line("*** Begin Patch", <<>>)

EndPatch == Line("*** End Patch", <<>>)

\* A parse error, with the index of the line it was found at (one past the
\* last line when the text ended too early).
ParseErr(msg, index) == [ok |-> FALSE, error |-> msg, index |-> index]

\* is_patch_header (fs.rs:1077-1081).
is_patch_header(line) ==
  line.head \in {"*** Add File: ", "*** Delete File: ", "*** Update File: "}

\* validate_relative_path (fs.rs:1083-1101) letting every path through.
ValidateNothing(path) == "ok"

\* validate_relative_path (fs.rs:1083-1101): "ok" or the error.
validate_relative_path(path) ==
  IF path = <<>> THEN "path cannot be empty"
  ELSE IF path[1] = "/" THEN "path must be relative"
  ELSE IF \E i \in 1..Len(path) : path[i] = ".." THEN "parent path '..' is not allowed"
  ELSE "ok"

\* The loop over the lines of an Add File section (fs.rs:962-973).
RECURSIVE AddedLines(_, _, _)
AddedLines(lines, index, added) ==
  IF index > Len(lines) \/ is_patch_header(lines[index]) \/ lines[index] = EndPatch
  THEN [ok |-> TRUE, index |-> index, lines |-> added]
  ELSE IF lines[index].head # "+"
  THEN ParseErr("invalid add-file line: expected '+' prefix", index)
  ELSE AddedLines(lines, index + 1, Append(added, lines[index].tail))

\* The loop over the lines of one hunk (fs.rs:1017-1040).
RECURSIVE HunkLines(_, _, _)
HunkLines(lines, index, hunk_lines) ==
  IF \/ index > Len(lines)
     \/ lines[index].head = "@@"
     \/ is_patch_header(lines[index])
     \/ lines[index] = EndPatch
  THEN [ok |-> TRUE, index |-> index, lines |-> hunk_lines]
  ELSE IF lines[index] = Line("*** End of File", <<>>)
  THEN [ok |-> TRUE, index |-> index + 1, lines |-> hunk_lines]
  ELSE IF lines[index].head = ""
  THEN ParseErr("empty hunk line is invalid", index)
  ELSE IF lines[index].head = " "
  THEN HunkLines(lines, index + 1,
                 Append(hunk_lines, [kind |-> "Context", text |-> lines[index].tail]))
  ELSE IF lines[index].head = "-"
  THEN HunkLines(lines, index + 1,
                 Append(hunk_lines, [kind |-> "Remove", text |-> lines[index].tail]))
  ELSE IF lines[index].head = "+"
  THEN HunkLines(lines, index + 1,
                 Append(hunk_lines, [kind |-> "Add", text |-> lines[index].tail]))
  ELSE ParseErr("invalid hunk line prefix", index)

\* The loop over the hunks of an Update File section (fs.rs:1004-1046).
RECURSIVE Hunks(_, _, _)
Hunks(lines, index, hunks) ==
  IF index > Len(lines) \/ is_patch_header(lines[index]) \/ lines[index] = EndPatch
  THEN [ok |-> TRUE, index |-> index, hunks |-> hunks]
  ELSE IF lines[index].head # "@@"
  THEN ParseErr("expected hunk header '@@'", index)
  ELSE LET hunk == HunkLines(lines, index + 1, <<>>)
       IN  IF ~hunk.ok THEN hunk
           ELSE IF hunk.lines = <<>> THEN ParseErr("empty hunk is invalid", hunk.index)
           ELSE Hunks(lines, hunk.index, Append(hunks, hunk.lines))

\* The loop over the sections (fs.rs:949-1063).
RECURSIVE Sections(_, _, _)
Sections(lines, index, ops) ==
  IF index > Len(lines) THEN ParseErr("missing *** End Patch", index)
  ELSE IF lines[index] = EndPatch
  THEN IF index # Len(lines)
       THEN ParseErr("unexpected content after *** End Patch", index + 1)
       ELSE [ok |-> TRUE, ops |-> ops]
  ELSE IF lines[index].head = "*** Add File: "
  THEN IF validate_relative_path(lines[index].tail) # "ok"
       THEN ParseErr(validate_relative_path(lines[index].tail), index)
       ELSE LET added == AddedLines(lines, index + 1, <<>>)
            IN  IF ~added.ok THEN added
                ELSE Sections(lines, added.index,
                              Append(ops, [op |-> "Add", path |-> lines[index].tail,
                                           lines |-> added.lines]))
  ELSE IF lines[index].head = "*** Delete File: "
  THEN IF validate_relative_path(lines[index].tail) # "ok"
       THEN ParseErr(validate_relative_path(lines[index].tail), index)
       ELSE Sections(lines, index + 1,
                     Append(ops, [op |-> "Delete", path |-> lines[index].tail]))
  ELSE IF lines[index].head = "*** Update File: "
  THEN IF validate_relative_path(lines[index].tail) # "ok"
       THEN ParseErr(validate_relative_path(lines[index].tail), index)
       ELSE LET moved == index + 1 <= Len(lines) /\ lines[index + 1].head = "*** Move to: "
            IN  IF moved /\ validate_relative_path(lines[index + 1].tail) # "ok"
                THEN ParseErr(validate_relative_path(lines[index + 1].tail), index + 1)
                ELSE LET body == Hunks(lines, IF moved THEN index + 2 ELSE index + 1, <<>>)
                     IN  IF ~body.ok THEN body
                         ELSE IF body.hunks = <<>>
                         THEN ParseErr("update operation has no hunks", body.index)
                         ELSE Sections(lines, body.index,
                                       Append(ops, [op |-> "Update",
                                                    path |-> lines[index].tail,
                                                    move_to |-> IF moved
                                                                THEN Some(lines[index + 1].tail)
                                                                ELSE None,
                                                    hunks |-> body.hunks]))
  ELSE ParseErr("unknown patch section header", index)

\* parse_apply_patch (fs.rs:934-1064) on the lines of the input.
parse_apply_patch(lines) ==
  IF lines = <<>> THEN ParseErr("patch is empty", 1)
  ELSE IF lines[1] # BeginPatch THEN ParseErr("expected '*** Begin Patch'", 1)
  ELSE Sections(lines, 2, <<>>)

\* line.strip_suffix('\r').unwrap_or(line).
StripCr(line) ==
  IF line # <<>> /\ line[Len(line)] = "\r" THEN SubSeq(line, 1, Len(line) - 1) ELSE line

\* str::lines (fs.rs:1180-1183): the text split at its line feeds, a carriage
\* return before a line feed being part of the line ending; a final line
\* needs no line feed.
RECURSIVE SplitLines(_, _)
SplitLines(text, line) ==
  IF text = <<>> THEN (IF line = <<>> THEN <<>> ELSE <<line>>)
  ELSE IF Head(text) = "\n" THEN <<StripCr(line)>> \o SplitLines(Tail(text), <<>>)
  ELSE SplitLines(Tail(text), Append(line, Head(text)))

\* original.lines().map(|line| line.strip_suffix('\r').unwrap_or(line))
\* (fs.rs:1180-1183).
SourceLines(original) ==
  LET lines == SplitLines(original, <<>>)
  IN  [i \in 1..Len(lines) |-> StripCr(lines[i])]

\* lines.join("\n").
RECURSIVE JoinLines(_)
JoinLines(lines) ==
  IF lines = <<>> THEN <<>>
  ELSE IF Len(lines) = 1 THEN lines[1]
  ELSE lines[1] \o <<"\n">> \o JoinLines(Tail(lines))

\* normalize_patch_lines (fs.rs:1243-1250).
normalize_patch_lines(lines) ==
  IF lines = <<>> THEN <<>> ELSE JoinLines(lines) \o <<"\n">>

\* find_hunk_match looking from index 0 whatever the cursor.
FindHunkFromZero(lines, expected_old, start) ==
  IF expected_old = <<>> THEN (IF start < Len(lines) THEN start ELSE Len(lines))
  ELSE LET hits == {idx \in 0..(Len(lines) - Len(expected_old)) :
                      SubSeq(lines, idx + 1, idx + Len(expected_old)) = expected_old}
       IN  IF hits = {} THEN -1 ELSE CHOOSE idx \in hits : \A other \in hits : idx <= other

\* find_hunk_match (fs.rs:1225-1241): the 0-based position, -1 for None.
find_hunk_match(lines, expected_old, start) ==
  IF expected_old = <<>> THEN (IF start < Len(lines) THEN start ELSE Len(lines))
  ELSE IF Len(expected_old) > Len(lines) \/ start > Len(lines) THEN -1
  ELSE LET hits == {idx \in start..(Len(lines) - Len(expected_old)) :
                      SubSeq(lines, idx + 1, idx + Len(expected_old)) = expected_old}
       IN  IF hits = {} THEN -1 ELSE CHOOSE idx \in hits : \A other \in hits : idx <= other

\* The texts of the lines of a hunk that are of one of the kinds.
TextsOf(hunk, kinds) ==
  LET kept == SelectSeq(hunk, LAMBDA l : l.kind \in kinds)
  IN  [i \in 1..Len(kept) |-> kept[i].text]

\* The loop over the hunks in apply_patch_hunks (fs.rs:1186-1216): the
\* patched lines, or <<"error">>.
RECURSIVE PatchedLines(_, _, _)
PatchedLines(lines, hunks, cursor) ==
  IF hunks = <<>> THEN <<"ok", lines>>
  ELSE LET expected_old == TextsOf(Head(hunks), {"Context", "Remove"})
           replacement == TextsOf(Head(hunks), {"Context", "Add"})
           at_cursor == find_hunk_match(lines, expected_old, cursor)
           match_pos == IF at_cursor >= 0 THEN at_cursor
                        ELSE find_hunk_match(lines, expected_old, 0)
       IN  IF match_pos < 0 THEN <<"error">>
           ELSE PatchedLines(SubSeq(lines, 1, match_pos) \o replacement \o
                               SubSeq(lines, match_pos + Len(expected_old) + 1, Len(lines)),
                             Tail(hunks), match_pos + Len(replacement))

\* apply_patch_hunks (fs.rs:1179-1223).
\* A patcher that hands back the original when a hunk has no window.
ApplyHunksLenient(original, hunks) ==
  LET patched == PatchedLines(SourceLines(original), hunks, 0)
  IN  IF patched[1] = "error" THEN <<"ok", original>>
      ELSE <<"ok", JoinLines(patched[2]) \o
                     (IF original # <<>> /\ original[Len(original)] = "\n"
                      THEN <<"\n">> ELSE <<>>)>>

apply_patch_hunks(original, hunks) ==
  LET patched == PatchedLines(SourceLines(original), hunks, 0)
  IN  IF patched[1] = "error" THEN <<"error">>
      ELSE <<"ok", JoinLines(patched[2]) \o
                     (IF original # <<>> /\ original[Len(original)] = "\n"
                      THEN <<"\n">> ELSE <<>>)>>

\* PathBuf::from(path) for the paths the texts name, as the file it leads
\* to: a "." component leads nowhere else.
PathString(path) ==
  LET normal == SelectSeq(path, LAMBDA c : c # ".")
  IN  IF Len(normal) = 1 THEN "x.txt" ELSE "d/x.txt"

\* create_dir_all(parent) (fs.rs:1113-1117).
create_dir_all(D, path) == IF Parent(path) = "" THEN D ELSE D \cup {Parent(path)}

NoSummary == [added_files |-> 0, updated_files |-> 0, deleted_files |-> 0, moved_files |-> 0]

\* ApplyPatchOp::Add (fs.rs:1108-1123).
ApplyAdd(op, F, D, t, summary) ==
  LET target == PathString(op.path)
  IN  IF F[target].exists THEN {Outcome(F, D, Err("add file failed: already exists"))}
      ELSE write_atomically(F, create_dir_all(D, target), target,
                            normalize_patch_lines(op.lines), t,
                            [summary EXCEPT !.added_files = @ + 1], "failed to write")

\* ApplyPatchOp::Delete (fs.rs:1124-1133).
ApplyDelete(op, F, D, t, summary) ==
  LET target == PathString(op.path)
  IN  IF ~F[target].exists THEN {Outcome(F, D, Err("delete file failed: does not exist"))}
      ELSE {Outcome([F EXCEPT ![target] = NoFile], D,
                    Ok([summary EXCEPT !.deleted_files = @ + 1])),
            Outcome(F, D, Err("failed to delete"))}

\* ApplyPatchOp::Update (fs.rs:1134-1172).
ApplyUpdate(op, F, D, t, summary) ==
  LET source == PathString(op.path)
      dest == IF op.move_to = None THEN source ELSE PathString(op.move_to[2])
  IN  IF ~F[source].exists THEN {Outcome(F, D, Err("failed to read"))}
      ELSE LET updated == apply_patch_hunks(F[source].content, op.hunks)
           IN  IF updated[1] = "error" THEN {Outcome(F, D, Err("failed to patch"))}
               ELSE LET written == write_atomically(F, create_dir_all(D, dest), dest,
                                                    updated[2], t, summary, "failed to write")
                    IN  {IF ~o.result.ok THEN o
                         ELSE IF op.move_to # None /\ op.move_to[2] # op.path
                         THEN Outcome([o.files EXCEPT ![source] = NoFile], o.dirs,
                                      Ok([summary EXCEPT !.moved_files = @ + 1,
                                                         !.updated_files = @ + 1]))
                         ELSE Outcome(o.files, o.dirs,
                                      Ok([summary EXCEPT !.updated_files = @ + 1])) :
                         o \in written}

ApplyOp(op, F, D, t, summary) ==
  CASE op.op = "Add" -> ApplyAdd(op, F, D, t, summary)
    [] op.op = "Delete" -> ApplyDelete(op, F, D, t, summary)
    [] op.op = "Update" -> ApplyUpdate(op, F, D, t, summary)

\* apply_patch_ops (fs.rs:1103-1177): the operations in order; the first
\* error is returned and what was done before it stays done.
RECURSIVE apply_patch_ops(_, _, _, _, _)
apply_patch_ops(ops, F, D, t, summary) ==
  IF ops = <<>> THEN {Outcome(F, D, Ok(summary))}
  ELSE UNION {IF o.result.ok
              THEN apply_patch_ops(Tail(ops), o.files, o.dirs, t, o.result.value)
              ELSE {o} :
              o \in ApplyOp(Head(ops), F, D, t, summary)}

\* ApplyPatchTool::execute (fs.rs:558-574).
ApplyPatchTool(input, F, D, t) ==
  LET patch_ops == parse_apply_patch(input.patch)
  IN  IF ~patch_ops.ok THEN {Outcome(F, D, Err("failed to parse patch"))}
      ELSE {IF ~o.result.ok THEN Outcome(o.files, o.dirs, Err("failed to apply patch"))
            ELSE Outcome(o.files, o.dirs,
                         Ok([patched |-> TRUE,
                             added_files |-> o.result.value.added_files,
                             updated_files |-> o.result.value.updated_files,
                             deleted_files |-> o.result.value.deleted_files,
                             moved_files |-> o.result.value.moved_files])) :
            o \in apply_patch_ops(patch_ops.ops, F, D, t, NoSummary)}

\* Lines of a patch text.
MaxPatchLines == 6

\* The lines the texts are made of.
PatchLines ==
  {BeginPatch, EndPatch,
   Line("*** Add File: ", <<"x.txt">>), Line("*** Add File: ", <<"d", "x.txt">>),
   Line("*** Add File: ", <<>>),
   Line("*** Delete File: ", <<"x.txt">>), Line("*** Delete File: ", <<"d", "x.txt">>),
   Line("*** Delete File: ", <<"..", "x.txt">>),
   Line("*** Update File: ", <<"x.txt">>),
   Line("*** Move to: ", <<"d", "x.txt">>), Line("*** Move to: ", <<"/", "x.txt">>),
   Line("*** Move to: ", <<"x.txt">>), Line("*** Move to: ", <<".", "x.txt">>),
   Line("*** Frob File: ", <<"x.txt">>),
   Line("@@", <<>>), Line("*** End of File", <<>>),
   Line("+", <<"hi">>), Line("-", <<"hi">>), Line(" ", <<"hi">>), Line("-", <<"ho">>),
   Line("h", <<"i">>), Line("", <<>>)}

\* The parser has read every line of the text and asks for the next one.
WantsMore(lines) ==
  LET parsed == parse_apply_patch(lines)
  IN  ~parsed.ok /\ parsed.index > Len(lines)

\* The text grows by a line. The parser reads the lines in order and
\* returns at the first error, so a text it has already rejected at one of
\* its lines is not continued.
WriteLine(line) ==
  /\ fs_calls = 0
  /\ Len(patch) < MaxPatchLines
  /\ WantsMore(patch)
  /\ patch' = Append(patch, line)
  /\ UNCHANGED <<fvars, NotFs>>

\* apply_patch is called with the text.
ApplyPatch ==
  /\ fs_calls = 0
  /\ \E o \in ApplyPatchTool([tool |-> "apply_patch", patch |-> patch], files, dirs, fs_clock) :
       /\ files' = o.files
       /\ dirs' = o.dirs
       /\ tool_result' = o.result
  /\ fs_calls' = 1
  /\ last_input' = [tool |-> "apply_patch", patch |-> patch]
  /\ UNCHANGED <<fs_clock, patch, NotFs>>

\* x.txt is absent or holds one line; the directory d may exist.
PatchInit ==
  /\ KernelIdle
  /\ StoreIdle
  /\ HooksIdle
  /\ WriteIdle
  /\ LaterIdle
  /\ files \in {[p \in FsPaths |-> NoFile],
                [p \in FsPaths |-> IF p = "x.txt" THEN File(<<"hi", "\n">>, 1) ELSE NoFile]}
  /\ dirs \in SUBSET {"d"}
  /\ fs_clock = 1
  /\ fs_calls = 0
  /\ last_input = [tool |-> "none"]
  /\ tool_result = [none |-> TRUE]
  /\ patch = <<>>

PatchNext ==
  \/ \E line \in PatchLines : WriteLine(line)
  \/ ApplyPatch

PatchSpec == PatchInit /\ [][PatchNext]_vars

\* C19: an apply_patch whose text is an Add File of a path that does not
\* exist followed by a Delete File of the same path, and that returns Ok,
\* leaves every file and directory as before and returns patched with
\* added_files 1 and deleted_files 1.
C19_AddThenDeleteLeavesNoTrace ==
  [][ (fs_calls = 0 /\ fs_calls' = 1) =>
        LET parsed == parse_apply_patch(patch)
        IN  ( /\ parsed.ok
              /\ Len(parsed.ops) = 2
              /\ parsed.ops[1].op = "Add"
              /\ parsed.ops[2].op = "Delete"
              /\ parsed.ops[1].path = parsed.ops[2].path
              /\ ~files[PathString(parsed.ops[1].path)].exists
              /\ tool_result'.ok ) =>
              /\ files' = files
              /\ dirs' = dirs
              /\ tool_result'.value.patched
              /\ tool_result'.value.added_files = 1
              /\ tool_result'.value.deleted_files = 1
    ]_vars

\* A path that is not empty, is relative and has no .. component.
GoodPath(path) ==
  /\ path # <<>>
  /\ path[1] # "/"
  /\ \A i \in 1..Len(path) : path[i] # ".."

\* Line i of the text is a line of a hunk: an @@ line comes before it with
\* no header, @@, End of File or End Patch line from there up to line i.
IsHunkLine(lines, i) ==
  LET Closes(l) == \/ l.head \in {"@@", "*** End of File", "*** End Patch"}
                   \/ l.head \in {"*** Add File: ", "*** Delete File: ",
                                  "*** Update File: ", "*** Frob File: "}
  IN  /\ ~Closes(lines[i])
      /\ \E j \in 1..(i - 1) :
           /\ lines[j].head = "@@"
           /\ \A k \in (j + 1)..(i - 1) : ~Closes(lines[k])

\* The conditions of the patch format on a text.
WellFormed(lines) ==
  /\ lines # <<>>
  /\ lines[1] = BeginPatch
  /\ lines[Len(lines)] = EndPatch
  /\ \A i \in 1..Len(lines) :
       LET line == lines[i]
       IN  /\ line.head # "*** Frob File: "
           /\ line.head \in {"*** Add File: ", "*** Delete File: ",
                              "*** Update File: ", "*** Move to: "} => GoodPath(line.tail)
           /\ line.head = "*** Update File: " =>
                LET first == IF i < Len(lines) /\ lines[i + 1].head = "*** Move to: "
                             THEN i + 2 ELSE i + 1
                IN  first <= Len(lines) /\ lines[first].head = "@@"
           /\ line.head = "@@" =>
                (i < Len(lines) /\ lines[i + 1].head \in {" ", "-", "+"})
           /\ IsHunkLine(lines, i) => line.head \in {" ", "-", "+"}

\* C20: apply_patch on a text that breaks one of the conditions of the patch
\* format returns the parse error and leaves every file and directory as it
\* was; the parser accepts only texts that meet them all.
C20_ParserAcceptsOnlyWellFormed ==
  [][ (fs_calls = 0 /\ fs_calls' = 1) =>
        /\ parse_apply_patch(patch).ok => WellFormed(patch)
        /\ ~WellFormed(patch) =>
             /\ tool_result' = Err("failed to parse patch")
             /\ files' = files
             /\ dirs' = dirs
    ]_vars

\* C20 witness: a text whose Move to names an absolute path was rejected
\* and the file to update is as it was.
C20_Witness ==
  /\ fs_calls = 1
  /\ Len(patch) = 3
  /\ patch[2] = Line("*** Update File: ", <<"x.txt">>)
  /\ patch[3] = Line("*** Move to: ", <<"/", "x.txt">>)
  /\ tool_result = Err("failed to parse patch")
  /\ files["x.txt"] = File(<<"hi", "\n">>, 1)
  /\ ~files["d/x.txt"].exists

\* ------------------------------------------------------------- subprocess executor
\* timeout_seconds ranges over None and Some(0..MaxTimeout).
MaxTimeout == 1
\* max_stdout_bytes and max_stderr_bytes range over 0..MaxCap.
MaxCap == 1
\* Bytes the child writes, over both streams.
MaxOutput == 2

\* exec_common.rs:10.
DEFAULT_TIMEOUT_SECONDS == 30

\* Length of read_stream_limited's chunk (exec_common.rs:173).
ChunkLen == 8192

\* The bytes a child writes: 0x61 ('a'), 0xC3 (the first byte of a two-byte
\* UTF-8 sequence) and 0xA9 (a continuation byte); C3 A9 is U+00E9.
Bytes == {"61", "C3", "A9"}

\* U+FFFD REPLACEMENT CHARACTER in UTF-8.
Replacement == <<"EF", "BF", "BD">>

RECURSIVE from_utf8_lossy(_)
\* String::from_utf8_lossy(&bytes).to_string() (exec_common.rs:135-136), as
\* the bytes of the String: valid sequences are kept, every byte that begins
\* no valid sequence becomes U+FFFD.
from_utf8_lossy(bytes) ==
  IF bytes = <<>> THEN <<>>
  ELSE IF bytes[1] = "61" THEN <<"61">> \o from_utf8_lossy(Tail(bytes))
  ELSE IF bytes[1] = "C3" /\ Len(bytes) >= 2 /\ bytes[2] = "A9"
       THEN <<"C3", "A9">> \o from_utf8_lossy(Tail(Tail(bytes)))
  ELSE Replacement \o from_utf8_lossy(Tail(bytes))

\* ExitStatus of a child that called exit(code), and of one ended by SIGKILL.
Exited(code) == <<"exited", code>>

Signaled == <<"signal", 9>>

\* ExitStatus::success and ExitStatus::code.
StatusSuccess(st) == st = Exited(0)

StatusCode(st) == IF st[1] = "exited" THEN Some(st[2]) ELSE None

\* The requests execute_command is called with.
ExecRequests ==
  [timeout_seconds : {None} \cup {Some(t) : t \in 0..MaxTimeout},
   capture : [Streams -> BOOLEAN],
   max_bytes : [Streams -> 0..MaxCap]]

\* Duration::from_secs(timeout_seconds.unwrap_or(DEFAULT_TIMEOUT_SECONDS))
\* (exec_common.rs:107), in seconds.
Duration ==
  IF request.timeout_seconds = None THEN DEFAULT_TIMEOUT_SECONDS
  ELSE request.timeout_seconds[2]

\* cmd.spawn() (exec_common.rs:53-105): the child runs, and a capture task is
\* started for every stream the request captures.
Spawn ==
  /\ e_pc = "start"
  /\ child' = "running"
  /\ e_pc' = "waiting"
  /\ UNCHANGED <<request, status, child_out, consumed, buffer, truncated, reader_done,
                 now, exit_time, kill_sent, exit_status, timed_out, exec_result, NotExec>>

\* cmd.spawn()? fails (exec_common.rs:78): no child, the error is returned.
SpawnFails ==
  /\ e_pc = "start"
  /\ e_pc' = "returned"
  /\ exec_result' = Err("spawn")
  /\ UNCHANGED <<request, child, status, child_out, consumed, buffer, truncated,
                 reader_done, now, exit_time, kill_sent, exit_status, timed_out, NotExec>>

\* The child writes one byte to a piped stream.
ChildWrite(s, b) ==
  /\ child = "running"
  /\ request.capture[s]
  /\ Len(child_out["stdout"]) + Len(child_out["stderr"]) < MaxOutput
  /\ child_out' = [child_out EXCEPT ![s] = Append(@, b)]
  /\ UNCHANGED <<request, child, status, consumed, buffer, truncated, reader_done,
                 now, exit_time, kill_sent, exit_status, timed_out, e_pc, exec_result,
                 NotExec>>

\* The child exits by itself.
ChildExit(code) ==
  /\ child = "running"
  /\ child' = "exited"
  /\ status' = Some(Exited(code))
  /\ exit_time' = Some(now)
  /\ UNCHANGED <<request, child_out, consumed, buffer, truncated, reader_done,
                 now, kill_sent, exit_status, timed_out, e_pc, exec_result, NotExec>>

Min(a, b) == IF a < b THEN a ELSE b

\* One turn of read_stream_limited's loop (exec_common.rs:175-192) on the
\* pipe of stream s: reader.read returns any number of the bytes in the pipe,
\* up to the chunk's length, and 0 once the pipe is empty and closed.
ReadChunk(s) ==
  /\ child # "none"
  /\ request.capture[s]
  /\ ~reader_done[s]
  /\ LET avail == Len(child_out[s]) - consumed[s]
         max_bytes == request.max_bytes[s]
     IN  IF avail = 0
         THEN /\ child # "running"
              /\ reader_done' = [reader_done EXCEPT ![s] = TRUE]
              /\ UNCHANGED <<consumed, buffer, truncated>>
         ELSE \E read \in 1..Min(avail, ChunkLen) :
                LET chunk == SubSeq(child_out[s], consumed[s] + 1, consumed[s] + read)
                IN  /\ consumed' = [consumed EXCEPT ![s] = @ + read]
                    /\ IF Len(buffer[s]) < max_bytes
                       THEN LET remaining == max_bytes - Len(buffer[s])
                            IN  IF read <= remaining
                                THEN /\ buffer' = [buffer EXCEPT ![s] = @ \o chunk]
                                     /\ UNCHANGED truncated
                                ELSE /\ buffer' = [buffer EXCEPT ![s] =
                                                     @ \o SubSeq(chunk, 1, remaining)]
                                     /\ truncated' = [truncated EXCEPT ![s] = TRUE]
                       ELSE /\ truncated' = [truncated EXCEPT ![s] = TRUE]
                            /\ UNCHANGED buffer
                    /\ UNCHANGED reader_done
  /\ UNCHANGED <<request, child, status, child_out, now, exit_time, kill_sent,
                 exit_status, timed_out, e_pc, exec_result, NotExec>>

\* A second passes while timeout(duration, child.wait()) is pending
\* (exec_common.rs:109).  The runtime polls the future as soon as the child
\* has exited or the deadline is reached, so the clock does not run past
\* either.
Tick ==
  /\ e_pc = "waiting"
  /\ child = "running"
  /\ now < Duration
  /\ now' = now + 1
  /\ UNCHANGED <<request, child, status, child_out, consumed, buffer, truncated,
                 reader_done, exit_time, kill_sent, exit_status, timed_out, e_pc,
                 exec_result, NotExec>>

\* timeout(..) returns Ok: child.wait() collected the exit status
\* (exec_common.rs:109-120).
WaitExit ==
  /\ e_pc = "waiting"
  /\ child = "exited"
  /\ child' = "reaped"
  /\ exit_status' = status
  /\ timed_out' = FALSE
  /\ e_pc' = "reaped"
  /\ UNCHANGED <<request, status, child_out, consumed, buffer, truncated, reader_done,
                 now, exit_time, kill_sent, exec_result, NotExec>>

\* timeout(..) returns Err(Elapsed): the deadline was reached and the child
\* had not exited when the future was polled (exec_common.rs:109-110).
Timeout ==
  /\ e_pc = "waiting"
  /\ child = "running"
  /\ now >= Duration
  /\ timed_out' = TRUE
  /\ e_pc' = "elapsed"
  /\ UNCHANGED <<request, child, status, child_out, consumed, buffer, truncated,
                 reader_done, now, exit_time, kill_sent, exit_status, exec_result,
                 NotExec>>

\* child.kill() (exec_common.rs:112): SIGKILL ends a running child; a child
\* that has exited in the meantime keeps the status it exited with.
Kill ==
  /\ e_pc = "elapsed"
  /\ kill_sent' = TRUE
  /\ child' = IF child = "running" THEN "killed" ELSE child
  /\ status' = IF child = "running" THEN Some(Signaled) ELSE status
  /\ e_pc' = "killing"
  /\ UNCHANGED <<request, child_out, consumed, buffer, truncated, reader_done,
                 now, exit_time, exit_status, timed_out, exec_result, NotExec>>

\* child.wait().await.ok() after the kill (exec_common.rs:113).
Reap ==
  /\ e_pc = "killing"
  /\ child' = "reaped"
  /\ exit_status' = status
  /\ e_pc' = "reaped"
  /\ UNCHANGED <<request, status, child_out, consumed, buffer, truncated, reader_done,
                 now, exit_time, kill_sent, timed_out, exec_result, NotExec>>

\* capture_stream(handle) (exec_common.rs:150-165) and the text made of it
\* (exec_common.rs:135-136).
CapturedText(s) ==
  IF request.capture[s] THEN Some(from_utf8_lossy(buffer[s])) ELSE None

CapturedTruncated(s) == IF request.capture[s] THEN truncated[s] ELSE FALSE

\* exec_common.rs:126-147: the capture tasks are awaited and the result is
\* returned.  duration_ms is left out.
Return ==
  /\ e_pc = "reaped"
  /\ \A s \in Streams : request.capture[s] => reader_done[s]
  /\ exec_result' =
       Ok([exit_code |-> IF exit_status = None THEN None ELSE StatusCode(exit_status[2]),
           success |-> IF exit_status = None THEN FALSE ELSE StatusSuccess(exit_status[2]),
           timed_out |-> timed_out,
           stdout |-> CapturedText("stdout"),
           stderr |-> CapturedText("stderr"),
           stdout_truncated |-> CapturedTruncated("stdout"),
           stderr_truncated |-> CapturedTruncated("stderr")])
  /\ e_pc' = "returned"
  /\ UNCHANGED <<request, child, status, child_out, consumed, buffer, truncated,
                 reader_done, now, exit_time, kill_sent, exit_status, timed_out, NotExec>>

ExecInit ==
  /\ KernelIdle
  /\ StoreIdle
  /\ HooksIdle
  /\ FsIdle
  /\ WriteIdle
  /\ PatchIdle
  /\ LastIdle
  /\ BashIdle
  /\ ConfigIdle
  /\ SlugIdle
  /\ HunksIdle
  /\ request \in ExecRequests
  /\ child = "none"
  /\ status = None
  /\ child_out = [s \in Streams |-> <<>>]
  /\ consumed = [s \in Streams |-> 0]
  /\ buffer = [s \in Streams |-> <<>>]
  /\ truncated = [s \in Streams |-> FALSE]
  /\ reader_done = [s \in Streams |-> FALSE]
  /\ now = 0
  /\ exit_time = None
  /\ kill_sent = FALSE
  /\ exit_status = None
  /\ timed_out = FALSE
  /\ e_pc = "start"
  /\ exec_result = [none |-> TRUE]

ExecNext ==
  \/ Spawn
  \/ SpawnFails
  \/ \E s \in Streams, b \in Bytes : ChildWrite(s, b)
  \/ \E code \in {0, 1} : ChildExit(code)
  \/ \E s \in Streams : ReadChunk(s)
  \/ Tick
  \/ WaitExit
  \/ Timeout
  \/ Kill
  \/ Reap
  \/ Return

ExecSpec == ExecInit /\ [][ExecNext]_vars

\* The stream the child wrote and the cap of its capture.
Field(r, s) == IF s = "stdout" THEN r.stdout ELSE r.stderr

FieldTruncated(r, s) == IF s = "stdout" THEN r.stdout_truncated ELSE r.stderr_truncated

IsPrefix(p, q) == Len(p) <= Len(q) /\ p = SubSeq(q, 1, Len(p))

\* What read_stream_limited keeps of a stream at every turn of its loop, and
\* hands over when it returns: at most max_bytes bytes, a prefix of what the
\* child wrote, truncated exactly when the child wrote more.
BufferBounded ==
  \A s \in Streams :
    /\ Len(buffer[s]) <= request.max_bytes[s]
    /\ IsPrefix(buffer[s], child_out[s])
    /\ truncated[s] => Len(child_out[s]) > request.max_bytes[s]
    /\ reader_done[s] =>
         (truncated[s] <=> Len(child_out[s]) > request.max_bytes[s])

\* C21: in the result of execute_command, every captured stream is at most
\* its cap long, is a prefix of what the child wrote to it, and its
\* truncated flag is set exactly when the child wrote more than the cap.
C21_CaptureWithinCap ==
  (e_pc = "returned" /\ exec_result.ok) =>
    \A s \in Streams :
      request.capture[s] =>
        LET text == Field(exec_result.value, s)[2]
        IN  /\ Len(text) <= request.max_bytes[s]
            /\ IsPrefix(text, child_out[s])
            /\ FieldTruncated(exec_result.value, s) <=>
                 Len(child_out[s]) > request.max_bytes[s]

\* The child exited by itself before the deadline, at the deadline, or not
\* before it.
ExitedBy(t) == exit_time # None /\ exit_time[2] <= t

\* The timeout and the kill of execute_command: timed_out says whether the
\* child was still running when timeout_seconds had elapsed (a child that
\* exits in the very second of the deadline may be counted either way), and
\* a child that timed out was sent the kill signal and reaped.
TimeoutKillsAndReaps ==
  (e_pc = "returned" /\ exec_result.ok) =>
    LET r == exec_result.value
    IN  /\ r.timed_out => (now = Duration /\ ~ExitedBy(Duration - 1))
        /\ ~r.timed_out => ExitedBy(Duration)
        /\ r.timed_out => (kill_sent /\ child = "reaped")
        /\ ~r.timed_out => ~kill_sent

\* C22: timed_out is true exactly when the child did not exit before
\* timeout_seconds (default 30) elapsed; a child that timed out was sent the
\* kill signal and reaped before the result is returned, and the result has
\* success = false.
C22_TimeoutMeansFailure ==
  /\ TimeoutKillsAndReaps
  /\ (e_pc = "returned" /\ exec_result.ok /\ exec_result.value.timed_out) =>
       exec_result.value.success = FALSE

\* ------------------------------------------------------------- bash tools
\* Length of the scripts.
MaxScript == 3

\* Characters of the scripts.
ScriptChars == {"r", "m", "R", " ", "l"}

Scripts == UNION {[1..n -> ScriptChars] : n \in 0..MaxScript}

\* str::to_lowercase.
LowerChar(c) == IF c = "R" THEN "r" ELSE c

to_lowercase(str) == [i \in 1..Len(str) |-> LowerChar(str[i])]

\* str::contains.
Contains(str, pat) ==
  \E i \in 1..(Len(str) - Len(pat) + 1) : SubSeq(str, i, i + Len(pat) - 1) = pat

\* The denylist of BashCommand::call (rx-core/src/main.rs:200-203).
forbidden ==
  { <<"r", "m", " ">>, <<"r", "m", "-">>, <<"s", "u", "d", "o">>,
    <<"c", "h", "m", "o", "d">>, <<"c", "h", "o", "w", "n">>,
    <<"c", "h", "g", "r", "p">>, <<"m", "v", " ">>, <<"d", "d", " ">>,
    <<"m", "k", "f", "s">>, <<"m", "o", "u", "n", "t">>,
    <<"u", "m", "o", "u", "n", "t">>,
    <<"s", "h", "u", "t", "d", "o", "w", "n">>,
    <<"r", "e", "b", "o", "o", "t">>, <<"i", "n", "i", "t", " ">>,
    <<"h", "a", "l", "t">> }

\* rx-core/src/main.rs:205-206.
Denied(cmd) == \E pat \in forbidden : Contains(to_lowercase(cmd), pat)

\* What a spawned shell comes to: its output, a failure status, or the
\* timeout.
ShellOutcomes == {"output", "failed", "timeout"}

\* BashTool::execute (tools/bash.rs:40-69), the tool main registers
\* (main.rs:365): the script goes to /bin/bash -c as it is.
BashToolExecute ==
  /\ bash_result = [none |-> TRUE]
  /\ \/ /\ spawned' = Append(spawned, <<"BashTool", "/bin/bash", "-c", script>>)
        /\ \E o \in ShellOutcomes :
             bash_result' =
               IF o = "output" THEN Ok([success |-> TRUE])
               ELSE IF o = "failed" THEN Ok([success |-> FALSE])
               ELSE Ok([error |-> "timeout", success |-> FALSE])
     \/ /\ bash_result' = Err("spawn")
        /\ UNCHANGED spawned
  /\ UNCHANGED <<script, NotBash>>

\* BashCommand::call (rx-core/src/main.rs:199-241), the tool of the rx-core
\* binary (rx-core/src/main.rs:360).
BashCommandCall ==
  /\ bash_result = [none |-> TRUE]
  /\ IF Denied(script)
     THEN /\ bash_result' = Err("Denied")
          /\ UNCHANGED spawned
     ELSE \/ /\ spawned' = Append(spawned, <<"BashCommand", "bash", "-lc", script>>)
             /\ \E o \in ShellOutcomes :
                  bash_result' =
                    IF o = "output" THEN Ok("stdout")
                    ELSE IF o = "failed" THEN Err("CommandFailed")
                    ELSE Err("Timeout")
          \/ /\ bash_result' = Err("spawn")
             /\ UNCHANGED spawned
  /\ UNCHANGED <<script, NotBash>>

BashInit ==
  /\ KernelIdle
  /\ StoreIdle
  /\ HooksIdle
  /\ FsIdle
  /\ WriteIdle
  /\ PatchIdle
  /\ LastIdle
  /\ ExecIdle
  /\ ConfigIdle
  /\ SlugIdle
  /\ HunksIdle
  /\ script \in Scripts
  /\ spawned = <<>>
  /\ bash_result = [none |-> TRUE]

BashNext ==
  \/ BashToolExecute
  \/ BashCommandCall

BashSpec == BashInit /\ [][BashNext]_vars

\* C23: the bash tool the bootstrap registers spawns no process for a script
\* that contains a denylisted fragment; such a call returns an error.
C23_BashDenylistBeforeSpawn ==
  /\ \A i \in 1..Len(spawned) :
       spawned[i][1] = "BashTool" => ~Denied(spawned[i][4])
  /\ (bash_result # [none |-> TRUE] /\ Denied(script)) => ~bash_result.ok

\* The same of the bash tool of the rx-core binary.
BashCommandDenies ==
  \A i \in 1..Len(spawned) :
    spawned[i][1] = "BashCommand" => ~Denied(spawned[i][4])

\* ------------------------------------------------------------- tool selection
\* Length of the enabled and disabled lists.
MaxNames == 2

\* A tool name is the tuple of its pieces: a word, or " " for whitespace.
\* config.rs:5-16.
AVAILABLE_TOOLS ==
  << <<"exec">>, <<"read_file">>, <<"write_file">>, <<"create_file">>,
     <<"append_file">>, <<"replace_in_file">>, <<"apply_patch">>,
     <<"apply_unified_patch">>, <<"list_dir">>, <<"done">> >>

\* The names a configuration file lists: tools, a name no tool has, names
\* with whitespace around them, the empty and the blank name.
ConfigNames ==
  { <<"exec">>, <<"read_file">>, <<"done">>, <<"not_real">>,
    <<" ", "exec">>, <<"done", " ">>, <<>>, <<" ">> }

NameLists == UNION {[1..n -> ConfigNames] : n \in 0..MaxNames}

\* Option<&ToolsConfig> (config.rs:23-27).
ToolsConfigs ==
  {None} \cup
  {Some([enabled |-> e, disabled |-> d]) :
     e \in {None} \cup {Some(l) : l \in NameLists},
     d \in {None} \cup {Some(l) : l \in NameLists}}

RECURSIVE TrimStart(_)
TrimStart(str) ==
  IF str # <<>> /\ str[1] = " " THEN TrimStart(Tail(str)) ELSE str

RECURSIVE TrimEnd(_)
TrimEnd(str) ==
  IF str # <<>> /\ str[Len(str)] = " " THEN TrimEnd(SubSeq(str, 1, Len(str) - 1))
  ELSE str

\* str::trim.
Trim(str) == TrimEnd(TrimStart(str))

\* The set of the values as they are written.
to_untrimmed_set(values) == {values[i] : i \in 1..Len(values)}

\* to_trimmed_set (config.rs:123-129).
to_trimmed_set(values) == {Trim(values[i]) : i \in 1..Len(values)} \ {<<>>}

\* The orders in which a HashSet may be iterated.
Orders(S) ==
  {o \in [1..Cardinality(S) -> S] : \A i, j \in 1..Cardinality(S) : o[i] = o[j] => i = j}

available_set == {AVAILABLE_TOOLS[i] : i \in 1..Len(AVAILABLE_TOOLS)}

\* The warnings for the unknown names of a set, in an order of its iteration
\* (config.rs:76-83, 99-106).
UnknownWarnings(order, list) ==
  LET IsUnknown(name) == name \notin available_set
      Warn(name) == <<"Config [tools].", list, " contains unknown tool '", name, "'; ignoring.">>
      unknown == SelectSeq(order, IsUnknown)
  IN  [i \in 1..Len(unknown) |-> Warn(unknown[i])]

\* resolve_enabled_tools (config.rs:63-121): the ToolSelections it may
\* return, one for each order of iteration of the two sets.
resolve_enabled_tools(config) ==
  LET enabled == IF config = None THEN None ELSE config[2].enabled
      disabled == IF config = None THEN None ELSE config[2].disabled
      enabled_set == IF enabled = None THEN {} ELSE to_trimmed_set(enabled[2])
      disabled_set == IF disabled = None THEN {} ELSE to_trimmed_set(disabled[2])
      IsEnabled(name) == name \in enabled_set
      NotDisabled(name) == name \notin disabled_set
      selected1 == IF enabled = None THEN AVAILABLE_TOOLS
                   ELSE SelectSeq(AVAILABLE_TOOLS, IsEnabled)
      selected2 == IF disabled = None THEN selected1 ELSE SelectSeq(selected1, NotDisabled)
      has_done == \E i \in 1..Len(selected2) : selected2[i] = <<"done">>
      warn_empty == IF enabled # None /\ enabled_set = {}
                    THEN <<"Config [tools].enabled is empty">> ELSE <<>>
      warn_done == IF has_done THEN <<>> ELSE <<"Tool 'done' cannot be disabled">>
  IN  { [enabled_tools |-> IF has_done THEN selected2 ELSE Append(selected2, <<"done">>),
         warnings |-> warn_empty \o UnknownWarnings(eo, "enabled")
                      \o UnknownWarnings(do, "disabled") \o warn_done] :
        eo \in Orders(enabled_set), do \in Orders(disabled_set) }

ResolveEnabledTools ==
  /\ selection = [none |-> TRUE]
  /\ selection' \in resolve_enabled_tools(tools_config)
  /\ UNCHANGED <<tools_config, NotConfig>>

ConfigInit ==
  /\ KernelIdle
  /\ StoreIdle
  /\ HooksIdle
  /\ FsIdle
  /\ WriteIdle
  /\ PatchIdle
  /\ LastIdle
  /\ ExecIdle
  /\ BashIdle
  /\ SlugIdle
  /\ HunksIdle
  /\ tools_config \in ToolsConfigs
  /\ selection = [none |-> TRUE]

ConfigNext == ResolveEnabledTools

ConfigSpec == ConfigInit /\ [][ConfigNext]_vars

\* AVAILABLE_TOOLS restricted to the names of E (all of them when enabled is
\* absent) minus the names of D, in AVAILABLE_TOOLS order, with done appended
\* when it is missing.
ExpectedTools(enabled_absent, E, D) ==
  LET Kept(name) == (enabled_absent \/ name \in E) /\ name \notin D
      kept == SelectSeq(AVAILABLE_TOOLS, Kept)
  IN  IF \E i \in 1..Len(kept) : kept[i] = <<"done">> THEN kept
      ELSE Append(kept, <<"done">>)

ListOf(opt) == IF opt = None THEN <<>> ELSE opt[2]

EnabledOf(config) == IF config = None THEN None ELSE config[2].enabled

DisabledOf(config) == IF config = None THEN None ELSE config[2].disabled

\* done exactly once, no duplicates, no unknown names.
SelectionWellFormed(tools) ==
  /\ Cardinality({i \in 1..Len(tools) : tools[i] = <<"done">>}) = 1
  /\ \A i, j \in 1..Len(tools) : tools[i] = tools[j] => i = j
  /\ \A i \in 1..Len(tools) : tools[i] \in available_set

\* C24 as stated: the selection is AVAILABLE_TOOLS restricted to the enabled
\* names minus the disabled names, the names taken as the configuration
\* writes them, with done appended when missing; it holds done once, no
\* duplicate and no unknown name.
C24_SelectionByListedNames ==
  selection # [none |-> TRUE] =>
    /\ selection.enabled_tools =
         ExpectedTools(EnabledOf(tools_config) = None,
                       to_untrimmed_set(ListOf(EnabledOf(tools_config))),
                       to_untrimmed_set(ListOf(DisabledOf(tools_config))))
    /\ SelectionWellFormed(selection.enabled_tools)

\* C24 amended: the same with every listed name trimmed of the whitespace
\* around it (and empty names dropped) before it is compared.
C24_SelectionByTrimmedNames ==
  selection # [none |-> TRUE] =>
    /\ selection.enabled_tools =
         ExpectedTools(EnabledOf(tools_config) = None,
                       {Trim(n) : n \in to_untrimmed_set(ListOf(EnabledOf(tools_config)))},
                       {Trim(n) : n \in to_untrimmed_set(ListOf(DisabledOf(tools_config)))})
    /\ SelectionWellFormed(selection.enabled_tools)

\* C24 witness: exec, written with a space before it, and read_file are
\* enabled and exec is disabled; read_file and the forced done are selected.
C24_Witness ==
  /\ tools_config = Some([enabled |-> Some(<< <<" ", "exec">>, <<"read_file">> >>),
                          disabled |-> Some(<< <<"exec">> >>)])
  /\ selection # [none |-> TRUE]
  /\ selection.enabled_tools = << <<"read_file">>, <<"done">> >>

\* ------------------------------------------------------------- goal slug
\* Pieces an input is made of.
MaxPieces == 4
\* Length of the long run of letters among the pieces.
LongRun == 46

\* utils.rs:25.
MAX_SLUG_CHARS == 48

\* The pieces: single characters (a letter, a capital, a digit, two
\* whitespace characters, the three separators, a punctuation mark, a
\* non-ASCII letter) and a run of LongRun letters.
Pieces == {"a", "B", "7", " ", "\t", "-", "_", "/", ".", "é", "long"}

PieceChars(piece) == IF piece = "long" THEN [i \in 1..LongRun |-> "a"] ELSE <<piece>>

RECURSIVE Expand(_)
Expand(pieces) ==
  IF pieces = <<>> THEN <<>> ELSE PieceChars(pieces[1]) \o Expand(Tail(pieces))

SlugInputs == {Expand(p) : p \in UNION {[1..n -> Pieces] : n \in 0..MaxPieces}}

\* char::to_lowercase, char::is_ascii_alphanumeric and char::is_whitespace
\* on those characters.
CharLower(ch) == IF ch = "B" THEN "b" ELSE ch

is_ascii_alphanumeric(ch) == ch \in {"a", "b", "B", "7"}

is_whitespace(ch) == ch \in {" ", "\t"}

RECURSIVE SlugScan(_, _, _, _)
\* The loop of sanitize_goal_slug (utils.rs:5-19) from character i on.
SlugScan(chars, i, slug, previous_was_dash) ==
  IF i > Len(chars) THEN slug
  ELSE LET ch == CharLower(chars[i])
       IN  IF is_ascii_alphanumeric(ch)
           THEN SlugScan(chars, i + 1, Append(slug, ch), FALSE)
           ELSE IF /\ (is_whitespace(ch) \/ ch = "-" \/ ch = "_" \/ ch = "/")
                   /\ slug # <<>>
                   /\ ~previous_was_dash
                THEN SlugScan(chars, i + 1, Append(slug, "-"), TRUE)
                ELSE SlugScan(chars, i + 1, slug, previous_was_dash)

RECURSIVE PopDashes(_)
\* while slug.ends_with('-') { slug.pop(); } (utils.rs:21-23, 28-30).
PopDashes(slug) ==
  IF slug # <<>> /\ slug[Len(slug)] = "-" THEN PopDashes(SubSeq(slug, 1, Len(slug) - 1))
  ELSE slug

\* slug.truncate(MAX_SLUG_CHARS) alone.
TruncateOnly(slug) ==
  IF Len(slug) > MAX_SLUG_CHARS THEN SubSeq(slug, 1, MAX_SLUG_CHARS) ELSE slug

\* utils.rs:26-31.
TruncateSlug(slug) ==
  IF Len(slug) > MAX_SLUG_CHARS THEN PopDashes(SubSeq(slug, 1, MAX_SLUG_CHARS)) ELSE slug

\* sanitize_goal_slug (utils.rs:1-38).
sanitize_goal_slug(input) ==
  LET slug == TruncateSlug(PopDashes(SlugScan(input, 1, <<>>, FALSE)))
  IN  IF slug = <<>> THEN <<"g", "o", "a", "l">> ELSE slug

SanitizeGoalSlug ==
  /\ slug_output = None
  /\ slug_output' = Some(sanitize_goal_slug(slug_input))
  /\ UNCHANGED <<slug_input, NotSlug>>

SlugInit ==
  /\ KernelIdle
  /\ StoreIdle
  /\ HooksIdle
  /\ FsIdle
  /\ WriteIdle
  /\ PatchIdle
  /\ LastIdle
  /\ ExecIdle
  /\ BashIdle
  /\ ConfigIdle
  /\ HunksIdle
  /\ slug_input \in SlugInputs
  /\ slug_output = None

SlugNext == SanitizeGoalSlug

SlugSpec == SlugInit /\ [][SlugNext]_vars

\* [a-z0-9]+(-[a-z0-9]+)* on the characters of the model.
MatchesSlugPattern(str) ==
  /\ str # <<>>
  /\ \A i \in 1..Len(str) : str[i] \in {"a", "b", "7", "g", "o", "l", "-"}
  /\ str[1] # "-"
  /\ str[Len(str)] # "-"
  /\ \A i \in 1..(Len(str) - 1) : ~(str[i] = "-" /\ str[i + 1] = "-")

RECURSIVE CollapseFrom(_, _, _)
\* The characters from i on with every run of whitespace made one space;
\* in_run says the character before i was whitespace.
CollapseFrom(chars, i, in_run) ==
  IF i > Len(chars) THEN <<>>
  ELSE IF is_whitespace(chars[i])
       THEN (IF in_run THEN <<>> ELSE <<" ">>) \o CollapseFrom(chars, i + 1, TRUE)
       ELSE <<chars[i]>> \o CollapseFrom(chars, i + 1, FALSE)

\* Runs of whitespace collapsed to a single space, and the whitespace at
\* both ends removed.
CollapseWhitespace(chars) == Trim(CollapseFrom(chars, 1, FALSE))

\* C25: the slug matches [a-z0-9]+(-[a-z0-9]+)*, is at most 48 long and not
\* empty, and is the slug of the input with its whitespace collapsed and
\* trimmed.
C25_SlugWellFormedAndStable ==
  slug_output # None =>
    /\ MatchesSlugPattern(slug_output[2])
    /\ Len(slug_output[2]) <= MAX_SLUG_CHARS
    /\ sanitize_goal_slug(CollapseWhitespace(slug_input)) = slug_output[2]

\* C25 witness: an input of 49 characters whose slug would have a dash as
\* its 48th character and a digit after it; the slug is cut to the 47
\* letters before the dash.
C25_Witness ==
  /\ slug_input = [i \in 1..LongRun |-> "a"] \o <<"B", "\t", "7">>
  /\ slug_output = Some([i \in 1..(LongRun + 1) |-> IF i <= LongRun THEN "a" ELSE "b"])

\* ------------------------------------------------------------- auto-commit
\* AutoCommitHook::on_event (runtime_hooks.rs:157-172): whether it goes on to
\* run git add for the event.  The tool name is payload["name"], "" when the
\* payload has no such key.
AutoCommitHookStages(event) ==
  /\ event.type = "tool_output"
  /\ (IF "name" \in DOMAIN event.payload THEN event.payload.name ELSE "") # "done"

\* The tool_output rows of the calls of done.
DoneOutputRows ==
  {i \in 1..Len(events) :
     /\ events[i].type = "tool_output"
     /\ \E tc \in ToolCalls : tc.name = "done" /\ IsOutputRowOf(events[i], tc)}

\* C26: no staging or commit command is run for the tool_output of a done
\* call, neither by the kernel's perform_commit nor by the AutoCommitHook
\* given that event.
C26_NoCommitAfterDone ==
  /\ \A i \in 1..Len(commits) : commits[i] # "done"
  /\ \A i \in DoneOutputRows : ~AutoCommitHookStages(events[i])

\* What holds of the kernel: perform_commit runs after a tool_output exactly
\* when auto_commit is set, whatever the tool.
KernelCommitsAfterEveryOutput ==
  [][ /\ commits' # commits => (auto_commit /\ pc = "executed" /\ Len(events') = Len(events) + 1)
      /\ (pc = "executed" /\ Len(events') = Len(events) + 1 /\ auto_commit) =>
           commits' = Append(commits, action.ToolCall.name)
    ]_vars

\* ------------------------------------------------------------- patch hunks
\* Lines of the file, and lines of the hunks of an Update taken together.
MaxFileLines == 3
MaxHunkLines == 3

\* The texts of the lines of files and hunks.
LineTexts == {<<"a">>, <<"b">>}

\* The line endings of a file: LF and CRLF.
Eols == {<<"\n">>, <<"\r", "\n">>}

RECURSIVE Content(_, _, _)
\* The text of a file with these lines and this line ending; final says
\* whether the last line has its line ending.
Content(lines, eol, final) ==
  IF lines = <<>> THEN <<>>
  ELSE IF Len(lines) = 1 THEN lines[1] \o (IF final THEN eol ELSE <<>>)
  ELSE lines[1] \o eol \o Content(Tail(lines), eol, final)

Originals ==
  {Content(l, eol, final) :
     l \in UNION {[1..n -> LineTexts] : n \in 0..MaxFileLines},
     eol \in Eols, final \in BOOLEAN}

\* ApplyPatchHunkLine and ApplyPatchHunk (a hunk has at least one line,
\* fs.rs:1042-1044; an Update at least one hunk, fs.rs:1048-1050).
HunkLineSet == [kind : {"Context", "Remove", "Add"}, text : LineTexts]

HunkLineSeqs == UNION {[1..n -> HunkLineSet] : n \in 1..MaxHunkLines}

RECURSIVE Grouped(_, _, _, _)
\* The lines from i on cut into hunks after the positions in cuts; hunk holds
\* the lines of the hunk under way.
Grouped(lines, cuts, i, hunk) ==
  IF i > Len(lines) THEN <<hunk>>
  ELSE IF (i - 1) \in cuts THEN <<hunk>> \o Grouped(lines, cuts, i + 1, <<lines[i]>>)
  ELSE Grouped(lines, cuts, i + 1, Append(hunk, lines[i]))

\* Every way of cutting up to MaxHunkLines hunk lines into hunks.
HunkLists ==
  UNION {{Grouped(l, cuts, 2, <<l[1]>>) : cuts \in SUBSET (1..(Len(l) - 1))} :
           l \in HunkLineSeqs}

ApplyPatchHunks ==
  /\ hunk_result = None
  /\ hunk_result' = Some(apply_patch_hunks(hunk_original, hunk_list))
  /\ UNCHANGED <<hunk_original, hunk_list, NotHunks>>

HunksInit ==
  /\ KernelIdle
  /\ StoreIdle
  /\ HooksIdle
  /\ FsIdle
  /\ WriteIdle
  /\ PatchIdle
  /\ LastIdle
  /\ ExecIdle
  /\ BashIdle
  /\ ConfigIdle
  /\ SlugIdle
  /\ hunk_original \in Originals
  /\ hunk_list \in HunkLists
  /\ hunk_result = None

HunksNext == ApplyPatchHunks

HunkSpec == HunksInit /\ [][HunksNext]_vars

\* The 0-based starts, from from on, of the windows of lines equal to old.
Windows(lines, old, from) ==
  {p \in from..(Len(lines) - Len(old)) : \A k \in 1..Len(old) : lines[p + k] = old[k]}

Least(S) == CHOOSE p \in S : \A q \in S : p <= q

\* The window a hunk replaces: the first one at or after the cursor, or else
\* the first one of the file; -1 when there is none.
WindowOf(lines, old, cursor) ==
  IF Windows(lines, old, cursor) # {} THEN Least(Windows(lines, old, cursor))
  ELSE IF Windows(lines, old, 0) # {} THEN Least(Windows(lines, old, 0))
  ELSE -1

RECURSIVE HunksReplaced(_, _, _)
\* The lines after each hunk in turn has replaced its window by its context
\* and add lines, every other line kept, the cursor going to the end of the
\* replacement; <<"error">> when a hunk has no window.
HunksReplaced(lines, hunks, cursor) ==
  IF hunks = <<>> THEN <<"ok", lines>>
  ELSE LET old == TextsOf(hunks[1], {"Context", "Remove"})
           new == TextsOf(hunks[1], {"Context", "Add"})
           p == WindowOf(lines, old, cursor)
       IN  IF p < 0 THEN <<"error">>
           ELSE HunksReplaced([i \in 1..(Len(lines) - Len(old) + Len(new)) |->
                                 IF i <= p THEN lines[i]
                                 ELSE IF i <= p + Len(new) THEN new[i - p]
                                 ELSE lines[i - Len(new) + Len(old)]],
                              Tail(hunks), p + Len(new))

EndsWithNewline(text) == text # <<>> /\ text[Len(text)] = "\n"

\* C27: apply_patch_hunks replaces, hunk after hunk, the first window equal
\* to the hunk's context and remove lines at or after the cursor, or else the
\* first one from index 0, by its context and add lines, leaves the other
\* lines as they are, moves the cursor (0 at first) to the end of the
\* replacement, and returns the lines joined by line feeds, with a final
\* line feed exactly when the original had one; it fails exactly when a
\* hunk has no window.
C27_HunksReplaceFirstWindow ==
  hunk_result # None =>
    LET replaced == HunksReplaced(SourceLines(hunk_original), hunk_list, 0)
        result == hunk_result[2]
    IN  IF replaced[1] = "error" THEN result = <<"error">>
        ELSE /\ result[1] = "ok"
             /\ EndsWithNewline(result[2]) <=> EndsWithNewline(hunk_original)
             /\ result[2] = JoinLines(replaced[2]) \o
                              (IF EndsWithNewline(hunk_original) THEN <<"\n">> ELSE <<>>)

\* C27 witness: in the file of lines a, b the first hunk removed b, which
\* left the cursor at 1, and the second hunk, whose line a is before the
\* cursor, was found from index 0 and replaced a by b.
C27_Witness ==
  /\ hunk_original = <<"a", "\n", "b", "\n">>
  /\ hunk_list = << <<[kind |-> "Remove", text |-> <<"b">>]>>,
                    <<[kind |-> "Remove", text |-> <<"a">>],
                      [kind |-> "Add", text |-> <<"b">>]>> >>
  /\ hunk_result = Some(<<"ok", <<"b", "\n">>>>)

\* ---------------------------------------------------------------------
\* Update operations of apply_patch: hunks that cannot be located, moves.
\* ---------------------------------------------------------------------

\* The patch text holds an Update as its first operation.
FirstIsUpdate(parsed) ==
  /\ parsed.ok
  /\ Len(parsed.ops) >= 1
  /\ parsed.ops[1].op = "Update"

\* C28: when a hunk of an Update of an existing file has no window, neither
\* from the cursor nor from index 0, apply_patch returns an error and every
\* file and directory is as before: the source keeps its bytes and is not
\* deleted, the move_to target and its directory are not created or changed.
C28_UnlocatedHunkFailsUpdate ==
  [][ (fs_calls = 0 /\ fs_calls' = 1) =>
        LET parsed == parse_apply_patch(patch)
        IN  ( /\ FirstIsUpdate(parsed)
              /\ files[PathString(parsed.ops[1].path)].exists
              /\ HunksReplaced(SourceLines(files[PathString(parsed.ops[1].path)].content),
                               parsed.ops[1].hunks, 0)[1] = "error" ) =>
              /\ ~tool_result'.ok
              /\ files' = files
              /\ dirs' = dirs
    ]_vars

\* C28 witness: an Update of x.txt with Move to d/x.txt whose hunk removes a
\* line the file does not hold has returned the error; x.txt holds its
\* line, d/x.txt and the directory d do not exist.
C28_Witness ==
  /\ fs_calls = 1
  /\ patch = <<BeginPatch, Line("*** Update File: ", <<"x.txt">>),
               Line("*** Move to: ", <<"d", "x.txt">>), Line("@@", <<>>),
               Line("-", <<"ho">>), EndPatch>>
  /\ tool_result = Err("failed to apply patch")
  /\ files["x.txt"] = File(<<"hi", "\n">>, 1)
  /\ ~files["d/x.txt"].exists
  /\ "d" \notin dirs

\* C29: after a successful apply_patch of one Update, if move_to is given
\* and differs from path the source does not exist, move_to holds the
\* patched content and moved_files is 1; with no move_to, or move_to equal
\* to path, the file exists with the patched content and moved_files is 0.
C29_MoveWritesTargetThenDeletesSource ==
  [][ (fs_calls = 0 /\ fs_calls' = 1) =>
        LET parsed == parse_apply_patch(patch)
            op == parsed.ops[1]
            source == PathString(op.path)
            patched == HunksReplaced(SourceLines(files[source].content), op.hunks, 0)
            content == JoinLines(patched[2]) \o
                         (IF EndsWithNewline(files[source].content)
                          THEN <<"\n">> ELSE <<>>)
        IN  ( /\ FirstIsUpdate(parsed)
              /\ Len(parsed.ops) = 1
              /\ tool_result'.ok ) =>
              IF op.move_to # None /\ op.move_to[2] # op.path
              THEN /\ ~files'[source].exists
                   /\ files'[PathString(op.move_to[2])].exists
                   /\ files'[PathString(op.move_to[2])].content = content
                   /\ tool_result'.value.moved_files = 1
              ELSE /\ files'[source].exists
                   /\ files'[source].content = content
                   /\ tool_result'.value.moved_files = 0
    ]_vars

\* With a move_to that leads to another file than path, the Update leaves
\* the patched content there and no source.
MoveToOtherFile ==
  [][ (fs_calls = 0 /\ fs_calls' = 1) =>
        LET parsed == parse_apply_patch(patch)
            op == parsed.ops[1]
            source == PathString(op.path)
        IN  ( /\ FirstIsUpdate(parsed)
              /\ Len(parsed.ops) = 1
              /\ tool_result'.ok
              /\ op.move_to # None
              /\ PathString(op.move_to[2]) # source ) =>
              /\ ~files'[source].exists
              /\ files'[PathString(op.move_to[2])].exists
              /\ tool_result'.value.moved_files = 1
    ]_vars

\* ---------------------------------------------------------------------
\* write_atomically: what is left behind when it returns.
\* ---------------------------------------------------------------------

\* The path holds the file it held when the write began, or none.
HoldsPreImage(E) ==
  IF pre_image = None THEN E[WPath] = 0
  ELSE E[WPath] = OldInode /\ inodes[OldInode] = pre_image[2]

\* C30: when write_atomically returns an error the temporary file the call
\* created does not exist, a temporary file of another write is where it
\* was, and the path holds its pre-image; when it returns Ok no temporary
\* file of the call remains and the path holds exactly the data.
C30_WriteLeavesNoTempBehind ==
  [][ /\ (w_pc # "failed" /\ w_pc' = "failed") =>
           /\ entries'[temp_path(WPath)] # NewInode
           /\ entries[temp_path(WPath)] = OtherInode =>
                entries'[temp_path(WPath)] = OtherInode
           /\ HoldsPreImage(entries')
      /\ (w_pc # "done" /\ w_pc' = "done") =>
           /\ entries'[temp_path(WPath)] # NewInode
           /\ entries'[WPath] # 0
           /\ inodes'[entries'[WPath]] = w_data
    ]_vars

\* The same without the temporary files of other writes.
OwnTempRemoved ==
  [][ /\ (w_pc # "failed" /\ w_pc' = "failed") =>
           /\ entries'[temp_path(WPath)] # NewInode
           /\ HoldsPreImage(entries')
      /\ (w_pc # "done" /\ w_pc' = "done") =>
           /\ entries'[temp_path(WPath)] # NewInode
           /\ entries'[WPath] # 0
           /\ inodes'[entries'[WPath]] = w_data
    ]_vars

\* The error return removes the temporary file of another write exactly
\* when open failed on the name that write holds.
GuardRemovesOtherTemp ==
  [][ (w_pc # "failed" /\ w_pc' = "failed") =>
        /\ entries[temp_path(WPath)] = OtherInode => w_pc = "start"
        /\ entries'[temp_path(WPath)] = 0
    ]_vars

\* ---------------------------------------------------------------------
\* Two write_file calls on the same path, run at the same time.
\* ---------------------------------------------------------------------

\* The two calls, as for two goals.
RaceCalls == {1, 2}

\* The path both write.
RacePath == "x.txt"

\* The texts the file holds and the calls write.
RaceTexts == {<<"a">>, <<"b">>, <<"c">>}

\* The precondition objects: none, or an expected_hash.
RacePreconditions ==
  {None} \cup {Some([expected_hash |-> Some(compute_hash(t)),
                     expected_mtime_unix_ms |-> None,
                     expected_size_bytes |-> None]) : t \in RaceTexts}

\* The inputs of write_file.
RaceInputs ==
  [tool : {"write_file"}, path : {RacePath}, content : RaceTexts,
   mode : {"overwrite", "append"}, precondition : RacePreconditions]

\* apply_precondition(&input, &path_buf).await (fs.rs:158-160): the file is
\* looked at, and the call returns the conflict or goes on.
RaceApplyPrecondition(i) ==
  /\ race_pc[i] = "start"
  /\ LET conflict == apply_precondition(race_input[i], race_files, RacePath)
     IN  IF conflict # None
         THEN /\ race_pc' = [race_pc EXCEPT ![i] = "done"]
              /\ race_result' = [race_result EXCEPT ![i] = Ok(conflict[2])]
         ELSE /\ race_pc' = [race_pc EXCEPT ![i] = "checked"]
              /\ UNCHANGED race_result
  /\ UNCHANGED <<race_files, race_clock, race_input, race_replaced, NotRace>>

\* The write that follows (fs.rs:162-180): the append, or write_atomically
\* whose rename replaces whatever the path holds by then.
RaceWrite(i) ==
  /\ race_pc[i] = "checked"
  /\ \E o \in WriteFile([race_input[i] EXCEPT !.precondition = None],
                        race_files, {}, race_clock + 1) :
       /\ race_files' = o.files
       /\ race_result' = [race_result EXCEPT ![i] = o.result]
       /\ race_replaced' = [race_replaced EXCEPT ![i] =
                              IF o.result.ok THEN Some(race_files[RacePath]) ELSE @]
  /\ race_clock' = race_clock + 1
  /\ race_pc' = [race_pc EXCEPT ![i] = "done"]
  /\ UNCHANGED <<race_input, NotRace>>

RaceInit ==
  /\ KernelIdle
  /\ StoreIdle
  /\ HooksIdle
  /\ FsIdle
  /\ WriteIdle
  /\ PatchIdle
  /\ ExecIdle
  /\ BashIdle
  /\ ConfigIdle
  /\ SlugIdle
  /\ HunksIdle
  /\ CommitIdle
  /\ BootIdle
  /\ MemIdle
  /\ PageIdle
  /\ ShellIdle
  /\ race_files \in {[p \in FsPaths |-> NoFile]} \cup
                    {[p \in FsPaths |-> IF p = RacePath THEN File(t, 1) ELSE NoFile] :
                       t \in RaceTexts}
  /\ race_clock = 1
  /\ race_input \in [RaceCalls -> RaceInputs]
  /\ race_pc = [i \in RaceCalls |-> "start"]
  /\ race_replaced = [i \in RaceCalls |-> None]
  /\ race_result = [i \in RaceCalls |-> [none |-> TRUE]]

RaceNext ==
  \/ \E i \in RaceCalls : RaceApplyPrecondition(i)
  \/ \E i \in RaceCalls : RaceWrite(i)

RaceSpec == RaceInit /\ [][RaceNext]_vars

\* The call was given an expected_hash.
ExpectsHash(i) ==
  /\ race_input[i].precondition # None
  /\ race_input[i].precondition[2].expected_hash # None

\* The call changed the file.
Mutated(i) == race_replaced[i] # None

\* The call returned the precondition_failed conflict.
ReturnedConflict(i) ==
  /\ race_result[i] # [none |-> TRUE]
  /\ race_result[i].ok
  /\ race_result[i].value = [success |-> FALSE, error |-> "precondition_failed",
                             path |-> RacePath,
                             expected |-> [hash |-> race_input[i].precondition[2].expected_hash,
                                           mtime_unix_ms |-> None, size_bytes |-> None],
                             actual |-> race_result[i].value.actual]

\* C31: of two write_file calls on one path that carry the same
\* expected_hash and write different contents, at most one changes the file
\* and, when one did, the other returns precondition_failed; and no call
\* with an expected_hash replaces a file whose hash is another one.
C31_OneWriterPerSnapshot ==
  \A i, j \in RaceCalls :
    ( /\ i # j
      /\ ExpectsHash(i) /\ ExpectsHash(j)
      /\ race_input[i].precondition = race_input[j].precondition
      /\ race_input[i].content # race_input[j].content
      /\ Mutated(i) ) =>
      /\ race_replaced[i][2].exists
      /\ Some(compute_hash(race_replaced[i][2].content)) =
           race_input[i].precondition[2].expected_hash
      /\ (race_pc[j] = "done") => (~Mutated(j) /\ ReturnedConflict(j))

\* A call that returned precondition_failed has not changed the file, and a
\* call that finds another hash than it expects when it looks returns it.
ConflictWritesNothing ==
  \A i \in RaceCalls :
    (race_pc[i] = "done" /\ ExpectsHash(i) /\ ~Mutated(i) /\ race_result[i].ok) =>
      ReturnedConflict(i)

\* A call replaces a file with another hash than it expects only when the
\* other call wrote between its look at the file and its own write.
OnlyTheOtherWriteIntervenes ==
  \A i \in RaceCalls :
    ( /\ ExpectsHash(i) /\ Mutated(i)
      /\ ~( /\ race_replaced[i][2].exists
            /\ Some(compute_hash(race_replaced[i][2].content)) =
                 race_input[i].precondition[2].expected_hash ) ) =>
      \E j \in RaceCalls \ {i} : Mutated(j)

\* ---------------------------------------------------------------------
\* BashTool::execute and its child, in time.
\* ---------------------------------------------------------------------

\* args.timeout_seconds.unwrap_or(30) (bash.rs:50).
BashDefaultTimeout == 30

\* Duration::from_secs(args.timeout_seconds.unwrap_or(30)), in seconds.
BashDuration ==
  IF sh_timeout = None THEN BashDefaultTimeout ELSE sh_timeout[2]

\* cmd.spawn() (bash.rs:52): /bin/bash -c script runs.  The Command is not
\* given kill_on_drop.
BashSpawn ==
  /\ sh_pc = "start"
  /\ sh_child' = "running"
  /\ sh_pc' = "waiting"
  /\ UNCHANGED <<sh_timeout, sh_now, sh_exit, sh_result, NotShell>>

\* cmd.spawn()? fails.
BashSpawnFails ==
  /\ sh_pc = "start"
  /\ sh_pc' = "returned"
  /\ sh_result' = Err("spawn")
  /\ UNCHANGED <<sh_timeout, sh_child, sh_now, sh_exit, NotShell>>

\* The shell exits by itself, while the tool waits or after it returned.
BashChildExit(code) ==
  /\ sh_child = "running"
  /\ sh_child' = "exited"
  /\ sh_exit' = Some([code |-> code, time |-> sh_now])
  /\ UNCHANGED <<sh_timeout, sh_now, sh_pc, sh_result, NotShell>>

\* A second passes while timeout(duration, child.wait_with_output()) is
\* pending (bash.rs:54); the future is polled as soon as the child has exited
\* or the deadline is reached.
BashTick ==
  /\ sh_pc = "waiting"
  /\ sh_child = "running"
  /\ sh_now < BashDuration
  /\ sh_now' = sh_now + 1
  /\ UNCHANGED <<sh_timeout, sh_child, sh_exit, sh_pc, sh_result, NotShell>>

\* timeout(..) returns Ok(result): wait_with_output collected the status and
\* the output (bash.rs:55-63).
BashWaitOutput ==
  /\ sh_pc = "waiting"
  /\ sh_child = "exited"
  /\ sh_child' = "reaped"
  /\ sh_result' = Ok([exit_code |-> Some(sh_exit[2].code),
                      success |-> sh_exit[2].code = 0])
  /\ sh_pc' = "returned"
  /\ UNCHANGED <<sh_timeout, sh_now, sh_exit, NotShell>>

\* timeout(..) returns Err(Elapsed) (bash.rs:64-67): the future that owns the
\* Child is dropped and the timeout object is returned.  Dropping a Child
\* that has no kill_on_drop sends no signal: the shell goes on running.
BashTimeout ==
  /\ sh_pc = "waiting"
  /\ sh_child = "running"
  /\ sh_now >= BashDuration
  /\ sh_result' = Ok([error |-> "timeout", success |-> FALSE])
  /\ sh_pc' = "returned"
  /\ UNCHANGED <<sh_timeout, sh_child, sh_now, sh_exit, NotShell>>

ShellInit ==
  /\ KernelIdle
  /\ StoreIdle
  /\ HooksIdle
  /\ FsIdle
  /\ WriteIdle
  /\ PatchIdle
  /\ ExecIdle
  /\ BashIdle
  /\ ConfigIdle
  /\ SlugIdle
  /\ HunksIdle
  /\ CommitIdle
  /\ BootIdle
  /\ MemIdle
  /\ PageIdle
  /\ RaceIdle
  /\ sh_timeout \in {None} \cup {Some(t) : t \in 0..MaxTimeout}
  /\ sh_child = "none"
  /\ sh_now = 0
  /\ sh_exit = None
  /\ sh_pc = "start"
  /\ sh_result = [none |-> TRUE]

ShellNext ==
  \/ BashSpawn
  \/ BashSpawnFails
  \/ \E code \in {0, 1} : BashChildExit(code)
  \/ BashTick
  \/ BashWaitOutput
  \/ BashTimeout

ShellSpec == ShellInit /\ [][ShellNext]_vars

\* The call returned the timeout object.
BashTimedOut ==
  sh_pc = "returned" /\ sh_result = Ok([error |-> "timeout", success |-> FALSE])

\* C32: the bash tool returns when its timeout (default 30 s) is over even
\* if the shell has not exited, and the shell of a call that timed out has
\* been killed and reaped, not left running.
C32_TimeoutEndsTheChild ==
  /\ (sh_pc = "waiting") => sh_now <= BashDuration
  /\ BashTimedOut => sh_child = "reaped"

\* BashTool::execute is back by the deadline: it never waits beyond it, it
\* returns the timeout object only at the deadline and only for a shell that
\* had not exited, and a shell that exited in time has been reaped.
BashToolReturnsByDeadline ==
  /\ (sh_pc = "waiting") => sh_now <= BashDuration
  /\ BashTimedOut => (sh_now = BashDuration /\ (sh_exit # None => sh_exit[2].time >= BashDuration))
  /\ (sh_pc = "returned" /\ sh_result.ok /\ ~BashTimedOut) => sh_child = "reaped"

\* While BashTool::execute waits, a step is always possible: it cannot wait
\* for ever.
BashToolNeverStuck ==
  (sh_pc \in {"start", "waiting"}) => ENABLED ShellNext

\* The shell of a call that timed out was still running when the call
\* returned, and no step of the tool ends it afterwards.
BashTimeoutLeavesChildRunning ==
  [][ (sh_pc = "waiting" /\ sh_pc' = "returned" /\ sh_result'.ok
         /\ sh_result'.value = [error |-> "timeout", success |-> FALSE]) =>
        sh_child' = "running"
    ]_vars

\* ---------------------------------------------------------------------
\* find_files and glob_search: ordering, truncation and the cursor.
\* ---------------------------------------------------------------------

\* The largest limit (max_results) argument.
MaxLimit == 2

\* DEFAULT_LIMIT (find_files.rs:12) and DEFAULT_MAX_RESULTS (glob_search.rs:14).
DEFAULT_LIMIT == 256

\* The names of directory entries, as their characters: a, b, and the name
\* a\b, which a Unix file may bear.
NameA == <<"a">>

NameB == <<"b">>

NameAB == <<"a", "\\", "b">>

\* The files that may exist below the root: b, a\b, a/a and a/b.
PageFiles == {<<NameB>>, <<NameAB>>, <<NameA, NameA>>, <<NameA, NameB>>}

\* The byte of a character: String's cmp compares bytes.
CharCode(c) ==
  CASE c = "/" -> 47
    [] c = "\\" -> 92
    [] c = "a" -> 97
    [] c = "b" -> 98

\* a.cmp(b) == Less on Strings.
RECURSIVE StrLess(_, _)
StrLess(a, b) ==
  IF b = <<>> THEN FALSE
  ELSE IF a = <<>> THEN TRUE
  ELSE IF a[1] # b[1] THEN CharCode(a[1]) < CharCode(b[1])
  ELSE StrLess(Tail(a), Tail(b))

StrLeq(a, b) == a = b \/ StrLess(a, b)

\* trim_matches('/').
RECURSIVE TrimSlashes(_)
TrimSlashes(str) ==
  IF str = <<>> THEN <<>>
  ELSE IF str[1] = "/" THEN TrimSlashes(Tail(str))
  ELSE IF str[Len(str)] = "/" THEN TrimSlashes(SubSeq(str, 1, Len(str) - 1))
  ELSE str

\* A relative path taken as it is.
KeepRelPath(value) == value

\* normalize_rel_path (fs_common.rs:89-91, find_files.rs:331-333):
\* value.replace('\\', "/").trim_matches('/').
normalize_rel_path(value) ==
  TrimSlashes([i \in 1..Len(value) |-> IF value[i] = "\\" THEN "/" ELSE value[i]])

\* format!("{}/{}", relative_prefix, name), or the name below the root
\* (find_files.rs:222-226, glob_search.rs:254-258).
RelativeTo(prefix, name) == IF prefix = <<>> THEN name ELSE prefix \o <<"/">> \o name

\* The names in a set, sorted: rows.sort_by(|(a, _), (b, _)| a.cmp(b)).
RECURSIVE SortedNames(_)
SortedNames(S) ==
  IF S = {} THEN <<>>
  ELSE LET least == CHOOSE n \in S : \A m \in S : StrLeq(n, m)
       IN  <<least>> \o SortedNames(S \ {least})

\* The entries of the directory at dir (the names on its path).
RowsOf(tree, dir) ==
  {f[Len(dir) + 1] : f \in {g \in tree : Len(g) > Len(dir) /\ SubSeq(g, 1, Len(dir)) = dir}}

\* collect_files (find_files.rs:188-276) and collect_matches
\* (glob_search.rs:231-291) over rows k.. of the directory dir: a candidate
\* for every file, with glob_search of kind any for every directory too, and
\* the directories are walked.  No filter leaves anything out.
RECURSIVE CollectRows(_, _, _, _, _, _)
CollectRows(tree, dir, prefix, rows, k, with_dirs) ==
  IF k > Len(rows) THEN <<>>
  ELSE LET name == rows[k]
           path == Append(dir, name)
           normalized_rel == normalize_rel_path(RelativeTo(prefix, name))
           here == [relative_path |-> normalized_rel, file |-> path]
       IN  (IF path \in tree
            THEN <<here>>
            ELSE (IF with_dirs THEN <<here>> ELSE <<>>) \o
                 CollectRows(tree, path, normalized_rel,
                             SortedNames(RowsOf(tree, path)), 1, with_dirs))
           \o CollectRows(tree, dir, prefix, rows, k + 1, with_dirs)

Collect(tree, with_dirs) ==
  CollectRows(tree, <<>>, <<>>, SortedNames(RowsOf(tree, <<>>)), 1, with_dirs)

\* candidates.sort_by(|a, b| a.relative_path.cmp(&b.relative_path))
\* (find_files.rs:118, glob_search.rs:139): a stable sort.
RECURSIVE SortByRelativePath(_)
SortByRelativePath(cands) ==
  IF cands = <<>> THEN <<>>
  ELSE LET k == CHOOSE i \in 1..Len(cands) :
                  /\ \A j \in 1..Len(cands) :
                       StrLeq(cands[i].relative_path, cands[j].relative_path)
                  /\ \A j \in 1..(i - 1) :
                       cands[j].relative_path # cands[i].relative_path
       IN  <<cands[k]>> \o
           SortByRelativePath(SubSeq(cands, 1, k - 1) \o SubSeq(cands, k + 1, Len(cands)))

\* The loop over the sorted candidates (find_files.rs:124-141,
\* glob_search.rs:141-158).
RECURSIVE FilterLoop(_, _, _, _, _, _)
FilterLoop(cands, k, cursor_value, seen_cursor, limit, filtered) ==
  IF k > Len(cands) THEN [filtered |-> filtered, truncated |-> FALSE]
  ELSE IF ~seen_cursor /\ cursor_value # None
          /\ StrLeq(cands[k].relative_path, cursor_value[2])
  THEN FilterLoop(cands, k + 1, cursor_value, seen_cursor, limit, filtered)
  ELSE IF Len(filtered) + 1 >= limit
  THEN [filtered |-> Append(filtered, cands[k]), truncated |-> TRUE]
  ELSE FilterLoop(cands, k + 1, cursor_value, TRUE, limit, Append(filtered, cands[k]))

\* FindFilesTool::execute (find_files.rs:73-186) and GlobSearchTool::execute
\* (glob_search.rs:99-190) on a root that is a directory.
Search(tree, query, cursor) ==
  LET limit == IF query.limit = None THEN DEFAULT_LIMIT
               ELSE IF query.limit[2] < 1 THEN 1 ELSE query.limit[2]
      candidates == SortByRelativePath(
                      Collect(tree, query.tool = "glob_search" /\ query.kind = "any"))
      cursor_value == IF cursor = None THEN None ELSE Some(normalize_rel_path(cursor[2]))
      looped == FilterLoop(candidates, 1, cursor_value, cursor_value = None, limit, <<>>)
      filtered == looped.filtered
  IN  [cursor |-> cursor,
       limit |-> limit,
       count |-> Len(filtered),
       truncated |-> looped.truncated,
       next_cursor |-> IF looped.truncated /\ filtered # <<>>
                       THEN Some(filtered[Len(filtered)].relative_path) ELSE None,
       entries |-> filtered]

\* The queries: find_files, and glob_search with a pattern that matches
\* every path, of kind file or any.
PageQueries ==
  [tool : {"find_files"}, kind : {"file"},
   limit : {None} \cup {Some(n) : n \in 0..MaxLimit}] \cup
  [tool : {"glob_search"}, kind : {"file", "any"},
   limit : {None} \cup {Some(n) : n \in 0..MaxLimit}]

\* The tool is called with the cursor at hand; the client takes next_cursor
\* for the next call while the output is truncated.
SearchCall ==
  /\ ~pg_done
  /\ LET out == Search(pg_tree, pg_query, pg_cursor)
     IN  /\ pg_pages' = Append(pg_pages, out)
         /\ pg_cursor' = out.next_cursor
         /\ pg_done' = ~out.truncated
  /\ UNCHANGED <<pg_tree, pg_query, NotPage>>

PageInit ==
  /\ KernelIdle
  /\ StoreIdle
  /\ HooksIdle
  /\ FsIdle
  /\ WriteIdle
  /\ PatchIdle
  /\ ExecIdle
  /\ BashIdle
  /\ ConfigIdle
  /\ SlugIdle
  /\ HunksIdle
  /\ CommitIdle
  /\ BootIdle
  /\ MemIdle
  /\ RaceIdle
  /\ ShellIdle
  /\ pg_tree \in SUBSET PageFiles
  /\ pg_query \in PageQueries
  /\ pg_cursor \in {None} \cup {Some(normalize_rel_path(RelativeTo(<<>>, f[1]))) :
                                  f \in {g \in PageFiles : Len(g) = 1}}
  /\ pg_pages = <<>>
  /\ pg_done = FALSE

PageNext == SearchCall

PageSpec == PageInit /\ [][PageNext]_vars

\* The entries of pages k.. one after the other.
RECURSIVE EntriesFrom(_, _)
EntriesFrom(pages, k) ==
  IF k > Len(pages) THEN <<>> ELSE pages[k].entries \o EntriesFrom(pages, k + 1)

\* What the query matches in the tree: every file, and with kind any every
\* directory as well.
Matching(tree, query) ==
  tree \cup (IF query.tool = "glob_search" /\ query.kind = "any"
             THEN {SubSeq(f, 1, 1) : f \in {g \in tree : Len(g) > 1}} ELSE {})

StrictlyAscending(listed) ==
  \A i, j \in 1..Len(listed) :
    i < j => StrLess(listed[i].relative_path, listed[j].relative_path)

\* A page as the claim describes it.
PageAsClaimed(page) ==
  /\ StrictlyAscending(page.entries)
  /\ Len(page.entries) <= page.limit
  /\ page.next_cursor # None <=> page.truncated
  /\ page.truncated =>
       page.next_cursor = Some(page.entries[Len(page.entries)].relative_path)
  /\ page.cursor # None =>
       \A i \in 1..Len(page.entries) :
         StrLess(page.cursor[2], page.entries[i].relative_path)

\* Paging from no cursor to the page that is not truncated lists every
\* match once, in order.
EnumeratedOnce ==
  (pg_done /\ pg_pages # <<>> /\ pg_pages[1].cursor = None) =>
    LET all == EntriesFrom(pg_pages, 1)
    IN  /\ {all[i].file : i \in 1..Len(all)} = Matching(pg_tree, pg_query)
        /\ Len(all) = Cardinality(Matching(pg_tree, pg_query))
        /\ StrictlyAscending(all)

\* C33: every page of find_files and glob_search lists its matches in
\* strictly ascending relative_path order, at most limit of them, all
\* greater than the cursor given; next_cursor is there exactly when the page
\* is truncated and is then the last relative path of the page; and paging
\* with cursor = next_cursor until a page is not truncated lists every
\* match exactly once, in order.
C33_PagesEnumerateOnce ==
  /\ \A k \in 1..Len(pg_pages) : PageAsClaimed(pg_pages[k])
  /\ EnumeratedOnce

\* The same over trees that hold no file named a\b: there no two entries
\* have the same relative path.
PagesOverPlainNames ==
  (<<NameAB>> \notin pg_tree) => C33_PagesEnumerateOnce

\* Over every tree: the size of a page, next_cursor and the cursor are as
\* claimed, and the relative paths never descend.
PagesBoundedAndLinked ==
  \A k \in 1..Len(pg_pages) :
    LET page == pg_pages[k]
    IN  /\ Len(page.entries) <= page.limit
        /\ page.next_cursor # None <=> page.truncated
        /\ page.truncated =>
             page.next_cursor = Some(page.entries[Len(page.entries)].relative_path)
        /\ page.cursor # None =>
             \A i \in 1..Len(page.entries) :
               StrLess(page.cursor[2], page.entries[i].relative_path)
        /\ \A i, j \in 1..Len(page.entries) :
             i < j => StrLeq(page.entries[i].relative_path, page.entries[j].relative_path)

\* ---------------------------------------------------------------------
\* InMemoryStateStore under concurrent calls.
\* ---------------------------------------------------------------------

\* Calls made on the store in all.
MaxMemCalls == 4

\* The tasks that share the store.
MemTasks == {1, 2}

\* The goal the instance is used for.
MemGoal == "g1"

\* The event of the n-th call: Event::new gives each its own id here.
MemEvent(n) == [id |-> n, type |-> "action", payload |-> [text |-> "x"]]

\* serde_json::to_string(&event) followed by a line feed.
JsonLine(e) == <<"json", e, "\n">>

\* A push that keeps only the new element.
VecPushAlone(v, e) == <<e>>

\* events.push(event.clone()) (state.rs:43).
VecPush(v, e) == Append(v, e)

\* A task calls append_event(goal_id, event) and reaches
\* self.events.lock().await (state.rs:41-42).
MemCallAppend(t) ==
  /\ mem_pc[t] = "idle"
  /\ mem_calls < MaxMemCalls
  /\ mem_calls' = mem_calls + 1
  /\ mem_arg' = [mem_arg EXCEPT ![t] = Some(MemEvent(mem_calls + 1))]
  /\ mem_pc' = [mem_pc EXCEPT ![t] = "append_wait"]
  /\ UNCHANGED <<mem_events, mem_lock, mem_returned, mem_loads, log_files, NotMem>>

\* A task calls load(goal_id) and reaches self.events.lock().await
\* (state.rs:36-37).
MemCallLoad(t) ==
  /\ mem_pc[t] = "idle"
  /\ mem_calls < MaxMemCalls
  /\ mem_calls' = mem_calls + 1
  /\ mem_pc' = [mem_pc EXCEPT ![t] = "load_wait"]
  /\ UNCHANGED <<mem_events, mem_lock, mem_arg, mem_returned, mem_loads, log_files, NotMem>>

\* lock().await completes: the Mutex was free and the task holds the guard.
MemLock(t) ==
  /\ mem_pc[t] \in {"append_wait", "load_wait"}
  /\ mem_lock = 0
  /\ mem_lock' = t
  /\ mem_pc' = [mem_pc EXCEPT ![t] = IF @ = "append_wait" THEN "append_locked"
                                                            ELSE "load_locked"]
  /\ UNCHANGED <<mem_events, mem_arg, mem_calls, mem_returned, mem_loads, log_files, NotMem>>

\* events.push(event.clone()) (state.rs:43).  Nothing else is done with the
\* event: no file is opened or written.
MemPush(t) ==
  /\ mem_pc[t] = "append_locked"
  /\ mem_events' = VecPush(mem_events, mem_arg[t][2])
  /\ mem_pc' = [mem_pc EXCEPT ![t] = "append_pushed"]
  /\ UNCHANGED <<mem_lock, mem_arg, mem_calls, mem_returned, mem_loads, log_files, NotMem>>

\* Ok(()) (state.rs:45): the guard is dropped on return.
MemAppendReturn(t) ==
  /\ mem_pc[t] = "append_pushed"
  /\ mem_lock' = 0
  /\ mem_returned' = mem_returned \cup {mem_arg[t][2]}
  /\ mem_arg' = [mem_arg EXCEPT ![t] = None]
  /\ mem_pc' = [mem_pc EXCEPT ![t] = "idle"]
  /\ UNCHANGED <<mem_events, mem_calls, mem_loads, log_files, NotMem>>

\* Ok(events.clone()) (state.rs:38): the guard is dropped on return.
MemLoadReturn(t) ==
  /\ mem_pc[t] = "load_locked"
  /\ mem_lock' = 0
  /\ mem_loads' = Append(mem_loads, mem_events)
  /\ mem_pc' = [mem_pc EXCEPT ![t] = "idle"]
  /\ UNCHANGED <<mem_events, mem_arg, mem_calls, mem_returned, log_files, NotMem>>

MemInit ==
  /\ KernelIdle
  /\ StoreIdle
  /\ HooksIdle
  /\ FsIdle
  /\ WriteIdle
  /\ PatchIdle
  /\ ExecIdle
  /\ BashIdle
  /\ ConfigIdle
  /\ SlugIdle
  /\ HunksIdle
  /\ CommitIdle
  /\ BootIdle
  /\ RaceIdle
  /\ ShellIdle
  /\ PageIdle
  /\ mem_events = <<>>
  /\ mem_lock = 0
  /\ mem_pc = [t \in MemTasks |-> "idle"]
  /\ mem_arg = [t \in MemTasks |-> None]
  /\ mem_calls = 0
  /\ mem_returned = {}
  /\ mem_loads = <<>>
  /\ log_files = <<>>

MemNext ==
  \/ \E t \in MemTasks : MemCallAppend(t)
  \/ \E t \in MemTasks : MemCallLoad(t)
  \/ \E t \in MemTasks : MemLock(t)
  \/ \E t \in MemTasks : MemPush(t)
  \/ \E t \in MemTasks : MemAppendReturn(t)
  \/ \E t \in MemTasks : MemLoadReturn(t)

MemSpec == MemInit /\ [][MemNext]_vars

\* The lines of logs/<goal_id>.jsonl, none when the file does not exist.
LogLines(g) == IF g \in DOMAIN log_files THEN Some(log_files[g]) ELSE None

\* C34: after every append_event of the in-memory store that returned Ok,
\* logs/<goal_id>.jsonl holds one JSON line for each event appended so far,
\* in append order.
C34_LogMirrorsEvents ==
  [][ \A t \in MemTasks :
        (mem_pc[t] = "append_pushed" /\ mem_pc'[t] = "idle") =>
          LogLines(MemGoal)' = Some([i \in 1..Len(mem_events') |-> JsonLine(mem_events'[i])])
    ]_vars

\* No call on the in-memory store creates or writes a file below logs/.
NoLogFileEver == log_files = <<>>

\* v is an initial segment of w.
IsPrefixOf(v, w) == Len(v) <= Len(w) /\ \A i \in 1..Len(v) : v[i] = w[i]

\* How often e occurs in v.
Occurrences(v, e) == Cardinality({i \in 1..Len(v) : v[i] = e})

\* The event a task has pushed whose append_event has not returned yet.
PushedNotReturned == {mem_arg[t][2] : t \in {u \in MemTasks : mem_pc[u] = "append_pushed"}}

\* C38: append_event and load calls of concurrent tasks are serialized by
\* the lock: every append that returned added exactly one event, no event
\* is lost or duplicated, every load returned a snapshot of the vector,
\* and what a load returned is a prefix of what every later load returned.
C38_AppendsAndLoadsSerialized ==
  /\ \A e \in mem_returned : Occurrences(mem_events, e) = 1
  /\ \A i \in 1..Len(mem_events) :
       /\ mem_events[i] \in mem_returned \cup PushedNotReturned
       /\ Occurrences(mem_events, mem_events[i]) = 1
  /\ Len(mem_events) = Cardinality(mem_returned) + Cardinality(PushedNotReturned)
  /\ \A i \in 1..Len(mem_loads) : IsPrefixOf(mem_loads[i], mem_events)
  /\ \A i, j \in 1..Len(mem_loads) : i < j => IsPrefixOf(mem_loads[i], mem_loads[j])
  /\ Cardinality({t \in MemTasks : mem_pc[t] \in {"append_locked", "append_pushed", "load_locked"}}) <= 1

\* A load has returned one event, and now one task holds the lock with a
\* second event pushed while the other task waits for the lock in load.
C38_Witness ==
  /\ Len(mem_loads) = 1
  /\ Len(mem_loads[1]) = 1
  /\ Len(mem_events) = 2
  /\ \E t, u \in MemTasks :
       /\ mem_pc[t] = "append_pushed"
       /\ mem_lock = t
       /\ mem_pc[u] = "load_wait"

\* ---------------------------------------------------------------------
\* The precondition fields as the parameter schemas declare them.
\* ---------------------------------------------------------------------

\* The schemas of write_file, create_file, append_file and replace_in_file
\* list expected_hash, expected_mtime_unix_ms and expected_size_bytes as
\* properties of the input object itself (fs.rs:108-120, 267-279, 349-361,
\* 442-454); they declare no "precondition" property.
SchemaFields ==
  [expected_hash : {None, Some(compute_hash(<<"a">>))},
   expected_mtime_unix_ms : {None, Some(1)},
   expected_size_bytes : {None, Some(1)}]

\* An input with the fields where the schema puts them and no
\* "precondition" key.
Declared(input, fields) ==
  [k \in DOMAIN input \cup DOMAIN fields |->
     IF k \in DOMAIN fields THEN fields[k] ELSE input[k]]

\* The inputs a caller that follows the schemas sends.
DeclaredInputs ==
  {Declared(input, fields) :
     input \in {i \in WriteFileInputs \cup CreateFileInputs \cup AppendFileInputs
                        \cup ReplaceInFileInputs : i.precondition = None},
     fields \in SchemaFields}

DeclaredNext == \E input \in DeclaredInputs : Execute(input)

DeclaredSpec == FsInit /\ [][DeclaredNext]_vars

\* The expected_* fields of an input, as one block.
FieldsOf(input) ==
  [expected_hash |-> input.expected_hash,
   expected_mtime_unix_ms |-> input.expected_mtime_unix_ms,
   expected_size_bytes |-> input.expected_size_bytes]

\* The input carries at least one of the three fields.
HasExpectation(input) ==
  \/ input.expected_hash # None
  \/ input.expected_mtime_unix_ms # None
  \/ input.expected_size_bytes # None

\* C36: a call whose input carries expected_hash, expected_mtime_unix_ms or
\* expected_size_bytes as the schema declares them changes no file and no
\* directory unless the current file's hash, mtime and size equal the given
\* values.
C36_DeclaredFieldsGuardTheWrite ==
  [][ (fs_calls' = fs_calls + 1 /\ HasExpectation(last_input')) =>
        (~BlockMatches(FieldsOf(last_input'), files, last_input'.path) =>
           (files' = files /\ dirs' = dirs))
    ]_vars

\* A call that follows the schema does what the same call without the
\* three fields does.
DeclaredFieldsAreIgnored ==
  [][ fs_calls' = fs_calls + 1 =>
        Outcome(files', dirs', tool_result') \in
          Run(Declared(last_input', [expected_hash |-> None,
                                     expected_mtime_unix_ms |-> None,
                                     expected_size_bytes |-> None]),
              files, dirs, fs_clock')
    ]_vars

\* ---------------------------------------------------------------------
\* The id of a new goal.
\* ---------------------------------------------------------------------

\* Pieces a goal text is made of.
MaxGoalPieces == 4

\* The pieces of a goal text: a letter, a capital, a digit, a space, a dash,
\* a punctuation mark and the run of LongRun letters.
GoalPieces == {"a", "B", "7", " ", "-", ".", "long"}

\* The goal texts: up to MaxGoalPieces pieces, the long run at most once.
NewGoals ==
  {Expand(p) : p \in {q \in UNION {[1..n -> GoalPieces] : n \in 0..MaxGoalPieces} :
                        Cardinality({i \in DOMAIN q : q[i] = "long"}) <= 1}}

\* Readings of the clock: year, month, day, hour, minute, second, with one
\* and two digit values.
ClockReadings ==
  [year : {2026}, month : {1, 11}, day : {30}, hour : {0}, minute : {5}, second : {9, 59}]

DecimalDigits == <<"0", "1", "2", "3", "4", "5", "6", "7", "8", "9">>

\* One decimal digit as a character.
DigitChar(d) == DecimalDigits[d + 1]

\* The decimal digits of n, without padding.
RECURSIVE Decimal(_)
Decimal(n) == IF n < 10 THEN <<DigitChar(n)>> ELSE Decimal(n \div 10) \o <<DigitChar(n % 10)>>

\* A number in at least two digits, zero padded (%m %d %H %M %S).
Pad2(n) == IF n < 10 THEN <<"0">> \o Decimal(n) ELSE Decimal(n)

\* chrono's format("%Y%m%d-%H%M%S") (main.rs:341); the year of a reading of
\* the clock has four digits.
FormatTimestamp(t) ==
  Decimal(t.year) \o Pad2(t.month) \o Pad2(t.day) \o <<"-">> \o
  Pad2(t.hour) \o Pad2(t.minute) \o Pad2(t.second)

\* What the model-backed generator answers with when it succeeds.  Its code
\* (GoalSlugGenerator, OpenAIGoalSlugModel, MockGoalSlugModel) is not among
\* the sources; the specification gives every slug of a goal id as lowercase
\* alphanumeric with single dashes, at most 48 long and not empty.
GeneratedSlugs ==
  {<<"a">>, <<"7", "-", "b">>, <<"g", "o", "a", "l">>, [i \in 1..MAX_SLUG_CHARS |-> "a"]}

\* The goal text as it is.
RawGoal(goal) == goal

\* Err(error) => { eprintln!(...); sanitize_goal_slug(&goal) } (main.rs:344-350).
FallbackSlug(goal) == sanitize_goal_slug(goal)

\* goal_slug_generator.goal_slug(&goal).await (main.rs:342): Ok(slug) or Err.
GoalSlug ==
  /\ slug_result = None
  /\ new_goal_id = None
  /\ slug_result' \in {Some(Ok(g)) : g \in GeneratedSlugs} \cup {Some(Err("goal slug"))}
  /\ UNCHANGED <<new_goal, utc_now, new_goal_id, NotBoot>>

\* let goal_slug = match ... ; let new_goal_id = format!("{}-{}",
\* timestamp_id, goal_slug) (main.rs:342-352).
NewGoalId ==
  /\ slug_result # None
  /\ new_goal_id = None
  /\ LET goal_slug == IF slug_result[2].ok THEN slug_result[2].value
                      ELSE FallbackSlug(new_goal)
     IN  new_goal_id' = Some(FormatTimestamp(utc_now) \o <<"-">> \o goal_slug)
  /\ UNCHANGED <<new_goal, utc_now, slug_result, NotBoot>>

BootInit ==
  /\ KernelIdle
  /\ StoreIdle
  /\ HooksIdle
  /\ FsIdle
  /\ WriteIdle
  /\ PatchIdle
  /\ ExecIdle
  /\ BashIdle
  /\ ConfigIdle
  /\ SlugIdle
  /\ HunksIdle
  /\ CommitIdle
  /\ RaceIdle
  /\ ShellIdle
  /\ PageIdle
  /\ MemIdle
  /\ new_goal \in NewGoals
  /\ utc_now \in ClockReadings
  /\ slug_result = None
  /\ new_goal_id = None

BootNext ==
  \/ GoalSlug
  \/ NewGoalId

BootSpec == BootInit /\ [][BootNext]_vars

\* Every character of str is a decimal digit.
AllDigits(str) == \A i \in 1..Len(str) : \E d \in 0..9 : str[i] = DigitChar(d)

\* YYYYMMDD-HHMMSS, a dash, and a slug.
HasGoalIdForm(id) ==
  /\ Len(id) > 16
  /\ AllDigits(SubSeq(id, 1, 8))
  /\ id[9] = "-"
  /\ AllDigits(SubSeq(id, 10, 15))
  /\ id[16] = "-"
  /\ LET slug == SubSeq(id, 17, Len(id))
     IN  /\ MatchesSlugPattern(slug)
         /\ Len(slug) <= MAX_SLUG_CHARS

MaxResponse == 4

\* The output texts: letters, spaces, line feeds and double quotes.
ResponseTexts == UNION {[1..n -> {"a", " ", "\n", "\""}] : n \in 0..MaxResponse}

\* The literal default (model.rs:408, kernel.rs:205, runtime_hooks.rs:207).
DefaultMessage == <<"rx: update">>

RECURSIVE TrimQuotesStart(_)
TrimQuotesStart(str) ==
  IF str # <<>> /\ str[1] = "\"" THEN TrimQuotesStart(Tail(str)) ELSE str

RECURSIVE TrimQuotesEnd(_)
TrimQuotesEnd(str) ==
  IF str # <<>> /\ str[Len(str)] = "\"" THEN TrimQuotesEnd(SubSeq(str, 1, Len(str) - 1))
  ELSE str

\* str::trim_matches('"').
TrimQuotes(str) == TrimQuotesEnd(TrimQuotesStart(str))

\* content.lines().next().unwrap_or("") (model.rs:400-403).
FirstLine(content) ==
  LET lines == SplitLines(content, <<>>)
  IN  IF lines = <<>> THEN <<>> ELSE lines[1]

\* The tail of OpenAICommitMessageModel::commit_message (model.rs:399-412)
\* on the output text of a response.
MessageOf(content) ==
  LET message == TrimQuotes(Trim(FirstLine(content)))
  IN  IF message = <<>> THEN DefaultMessage ELSE message

\* OpenAICommitMessageModel::commit_message (model.rs:319-412): a failed
\* request, status or body is an Err, otherwise the message of the text.
CommitMessage ==
  /\ gen_response # None
  /\ gen_result = None
  /\ gen_result' = Some(IF gen_response[2].ok THEN Ok(MessageOf(gen_response[2].value))
                        ELSE gen_response[2])
  /\ UNCHANGED <<gen_response, commit_caller, commit_used, NotCommit>>

\* Kernel::perform_commit (kernel.rs:202-209): Ok(message) if
\* !message.trim().is_empty() => message, _ => "rx: update".
PerformCommitMessage ==
  /\ commit_caller = "kernel"
  /\ gen_result # None
  /\ commit_used = None
  /\ commit_used' = Some(IF gen_result[2].ok /\ Trim(gen_result[2].value) # <<>>
                         THEN gen_result[2].value
                         ELSE DefaultMessage)
  /\ UNCHANGED <<gen_response, gen_result, commit_caller, NotCommit>>

\* AutoCommitHook::on_event (runtime_hooks.rs:203-212):
\* unwrap_or_else(|_| "rx: update"), then commit -m message.trim().
HookCommitMessage ==
  /\ commit_caller = "hook"
  /\ gen_result # None
  /\ commit_used = None
  /\ commit_used' = Some(Trim(IF gen_result[2].ok THEN gen_result[2].value
                              ELSE DefaultMessage))
  /\ UNCHANGED <<gen_response, gen_result, commit_caller, NotCommit>>

CommitInit ==
  /\ KernelIdle
  /\ StoreIdle
  /\ HooksIdle
  /\ FsIdle
  /\ WriteIdle
  /\ PatchIdle
  /\ ExecIdle
  /\ BashIdle
  /\ ConfigIdle
  /\ SlugIdle
  /\ HunksIdle
  /\ RaceIdle
  /\ ShellIdle
  /\ PageIdle
  /\ MemIdle
  /\ BootIdle
  /\ gen_response \in {Some(Ok(text)) : text \in ResponseTexts} \cup {Some(Err("request"))}
  /\ gen_result = None
  /\ commit_caller \in {"kernel", "hook"}
  /\ commit_used = None

CommitNext ==
  \/ CommitMessage
  \/ PerformCommitMessage
  \/ HookCommitMessage

CommitSpec == CommitInit /\ [][CommitNext]_vars

\* The lines of a text that are not empty once trimmed.
NonEmptyLines(content) == SelectSeq(SplitLines(content, <<>>), LAMBDA line : Trim(line) # <<>>)

\* The message the statement gives for a response.
FirstNonEmptyLineOrDefault(response) ==
  IF response.ok /\ NonEmptyLines(response.value) # <<>>
  THEN Trim(NonEmptyLines(response.value)[1])
  ELSE DefaultMessage

\* C39: the message an auto-commit uses is the first non-empty line of the
\* generator's response, trimmed, and the default rx: update when the
\* response has no non-empty line or the generator failed.
C39_FirstNonEmptyLineOrDefault ==
  commit_used # None => commit_used[2] = FirstNonEmptyLineOrDefault(gen_response[2])

\* No double quote in the response.
Unquoted(response) == response.ok => \A i \in 1..Len(response.value) : response.value[i] # "\""

\* What holds: for a response without double quotes the message is the
\* first line trimmed, and the default when that is empty or the generator
\* failed.
FirstLineOrDefault ==
  (commit_used # None /\ Unquoted(gen_response[2])) =>
    commit_used[2] = IF gen_response[2].ok /\ Trim(FirstLine(gen_response[2].value)) # <<>>
                     THEN Trim(FirstLine(gen_response[2].value))
                     ELSE DefaultMessage

\* The statement on responses without double quotes.
UnquotedFirstNonEmptyLine ==
  (commit_used # None /\ Unquoted(gen_response[2])) =>
    commit_used[2] = FirstNonEmptyLineOrDefault(gen_response[2])

\* ---------------------------------------------------------------------
\* apply_patch: the operations in order, up to the first that fails.
\* ---------------------------------------------------------------------

\* What is left when the operations are applied in order, each on what the
\* one before left, up to the first that fails, and the failing one leaves
\* what it found.
RECURSIVE StopAtFirstFailure(_, _, _, _, _)
StopAtFirstFailure(ops, F, D, t, summary) ==
  IF ops = <<>> THEN {[files |-> F, dirs |-> D, ok |-> TRUE]}
  ELSE UNION {IF o.result.ok
              THEN StopAtFirstFailure(Tail(ops), o.files, o.dirs, t, o.result.value)
              ELSE {[files |-> F, dirs |-> D, ok |-> FALSE]} :
              o \in ApplyOp(Head(ops), F, D, t, summary)}

\* The files alone.
FilesAtFirstFailure(ops, F, D, t) ==
  {[files |-> left.files, ok |-> left.ok] : left \in StopAtFirstFailure(ops, F, D, t, NoSummary)}

\* C40: apply_patch applies the operations in patch order, each on what
\* the operations before it left, and stops at the first that fails: what
\* the earlier operations did stays, the failing operation has changed
\* nothing, none after it is tried, and an error is returned.
C40_StopsAtFirstFailure ==
  [][ (fs_calls = 0 /\ fs_calls' = 1 /\ parse_apply_patch(patch).ok) =>
        [files |-> files', dirs |-> dirs', ok |-> tool_result'.ok] \in
          StopAtFirstFailure(parse_apply_patch(patch).ops, files, dirs, fs_clock, NoSummary)
    ]_vars

\* What holds: the same for the files; a failing operation may have made a
\* directory.
FilesStopAtFirstFailure ==
  [][ (fs_calls = 0 /\ fs_calls' = 1 /\ parse_apply_patch(patch).ok) =>
        /\ [files |-> files', ok |-> tool_result'.ok] \in
             FilesAtFirstFailure(parse_apply_patch(patch).ops, files, dirs, fs_clock)
        /\ dirs \subseteq dirs'
    ]_vars

====
